---- MODULE Spec2Model ----
(***************************************************************************)
(* State-machine model of src/beforeStreamlit.py: the error capture and    *)
(* deduplication pipeline (handle_error, save_error_to_json), the          *)
(* navigation guard (main.handle_navigation) and the exploration scheduler *)
(* (AdvancedBlindInteractionStrategy, phases 1-4 of main).                 *)
(*                                                                         *)
(* Strings that the program slices or joins are sequences of one-character *)
(* strings.  hashlib.md5 is idealised as collision free: a digest is       *)
(* represented by the string that is hashed.                               *)
(***************************************************************************)
EXTENDS Integers, Sequences, FiniteSets, TLC

(***************************************************************************)
(* Python values that flow through error_details                           *)
(***************************************************************************)
PyInt(n) == [k |-> "int", n |-> n]
PyStr(s) == [k |-> "str", s |-> s]
PyNone == [k |-> "none"]
\* a key that is missing from a dict
Absent == [k |-> "absent"]

\* dict.get(key, default)
DictGet(v, default) == IF v = Absent THEN default ELSE v

\* Python truthiness
Truthy(v) ==
    CASE v.k = "int" -> v.n # 0
      [] v.k = "str" -> v.s # <<>>
      [] OTHER -> FALSE

Digit(d) ==
    CASE d = 0 -> "0" [] d = 1 -> "1" [] d = 2 -> "2" [] d = 3 -> "3"
      [] d = 4 -> "4" [] d = 5 -> "5" [] d = 6 -> "6" [] d = 7 -> "7"
      [] d = 8 -> "8" [] OTHER -> "9"

RECURSIVE Digits(_)
Digits(n) == IF n < 10 THEN <<Digit(n)>> ELSE Digits(n \div 10) \o <<Digit(n % 10)>>

\* str(v)
str(v) ==
    CASE v.k = "int" -> Digits(v.n)
      [] v.k = "str" -> v.s
      [] OTHER -> <<"N", "o", "n", "e">>

\* s[:n]
Take(s, n) == SubSeq(s, 1, IF Len(s) < n THEN Len(s) ELSE n)

\* the default 'Unknown' of handle_error
Unknown == PyStr(<<"U", "n", "k", "n", "o", "w", "n">>)

\* error_message[:200]
SigMessageLen == 200

(***************************************************************************)
(* generate_error_signature                                                *)
(***************************************************************************)
\* the signature with the channel hashed in
SignatureWithType(error_type, error_message, filename, lineno, colno) ==
    <<error_type, "|">> \o Take(error_message, SigMessageLen) \o <<"|">>
        \o (IF Truthy(filename) THEN str(filename) ELSE <<>>) \o <<"|">>
        \o (IF Truthy(lineno) THEN str(lineno) ELSE <<>>) \o <<"|">>
        \o (IF Truthy(colno) THEN str(colno) ELSE <<>>)

generate_error_signature(error_type, error_message, filename, lineno, colno) ==
    Take(error_message, SigMessageLen) \o <<"|">>
        \o (IF Truthy(filename) THEN str(filename) ELSE <<>>) \o <<"|">>
        \o (IF Truthy(lineno) THEN str(lineno) ELSE <<>>) \o <<"|">>
        \o (IF Truthy(colno) THEN str(colno) ELSE <<>>)

(***************************************************************************)
(* The ledger file error.json                                              *)
(***************************************************************************)
\* no file on disk
MissingFile == [st |-> "missing", keys |-> {}, total_errors |-> 0, errors |-> <<>>]
\* a file that json.load rejects (a write that failed half way)
CorruptFile == [st |-> "corrupt", keys |-> {}, total_errors |-> 0, errors |-> <<>>]

\* error_data written by initialize_error_json
FreshLedger ==
    [st |-> "ok",
     keys |-> {"timestamp", "base_url", "script_name", "execution_start"},
     total_errors |-> 0,
     errors |-> <<>>]

\* error_data built by save_error_to_json when the file cannot be loaded
FallbackLedger ==
    [st |-> "ok",
     keys |-> {"timestamp", "base_url", "script_name"},
     total_errors |-> 0,
     errors |-> <<>>]

\* outcomes of opening and writing the file
WriteOutcomes == {"ok", "openfail", "dumpfail"}
\* outcomes of save_error_to_json's I/O: the read raises something other than
\* FileNotFoundError/JSONDecodeError, or the write fails
SaveOutcomes == {"ok", "readfail", "openfail", "dumpfail"}
\* outcomes of the read in handle_error's duplicate scan
ReadOutcomes == {"ok", "oserror"}

WriteFile(file, data, io) ==
    CASE io = "ok" -> data
      [] io = "openfail" -> file
      [] OTHER -> CorruptFile

initialize_error_json(file, io) == WriteFile(file, FreshLedger, io)

\* a save that gives up when the file cannot be loaded
SaveNeedsLedger(file, error_detail, io) ==
    IF io = "readfail" \/ file.st # "ok" THEN file
    ELSE WriteFile(file,
                   [file EXCEPT !.errors = Append(@, error_detail),
                                !.keys = @ \cup {"last_updated", "total_errors"},
                                !.total_errors = Len(file.errors) + 1],
                   io)

save_error_to_json(file, error_detail, io) ==
    IF io = "readfail" THEN file
    ELSE LET error_data == IF file.st = "ok" THEN file ELSE FallbackLedger
             appended == [error_data EXCEPT
                            !.errors = Append(@, error_detail),
                            !.keys = @ \cup {"last_updated", "total_errors"},
                            !.total_errors = Len(error_data.errors) + 1]
         IN  WriteFile(file, appended, io)

(***************************************************************************)
(* handle_error                                                            *)
(***************************************************************************)
\* error_detail of handle_error.  ev holds the arguments of the call: err,
\* error_type and the error_details entries that handle_error reads.  A
\* timestamp is "session" when it was taken during this execution.
ErrorDetail(ev, error_signature, url) ==
    [error_signature |-> error_signature,
     error_type |-> ev.error_type,
     error_message |-> ev.err,
     timestamp |-> "session",
     url |-> url,
     filename |-> DictGet(ev.filename, Unknown),
     line_number |-> DictGet(ev.lineno, Unknown),
     column_number |-> DictGet(ev.colno, Unknown),
     navigation_context |-> ev.nav]

EventSignature(ev) ==
    generate_error_signature(ev.error_type, ev.err, DictGet(ev.filename, Unknown),
                             DictGet(ev.lineno, Unknown), DictGet(ev.colno, Unknown))

\* the scan of the persisted ledger for the same message, filename and line
FoundInJson(file, ev, rd) ==
    /\ rd = "ok"
    /\ file.st = "ok"
    /\ \E i \in 1..Len(file.errors) :
          /\ file.errors[i].error_message = ev.err
          /\ file.errors[i].filename = DictGet(ev.filename, Unknown)
          /\ file.errors[i].line_number = DictGet(ev.lineno, Unknown)

\* a scan that records the signature before it looks at the ledger
AddBeforeScan(seen, file, ev, url, rd, sv) ==
    LET error_signature == EventSignature(ev) IN
    IF FoundInJson(file, ev, rd)
    THEN [seen |-> seen \cup {error_signature}, file |-> file, outcome |-> "dup_json"]
    ELSE [seen |-> seen \cup {error_signature},
          file |-> save_error_to_json(file, ErrorDetail(ev, error_signature, url), sv),
          outcome |-> "accepted"]

\* handle_error after the membership test: the ledger scan, seen_errors.add
\* and save_error_to_json
AfterMembershipTest(seen, file, ev, url, rd, sv) ==
    LET error_signature == EventSignature(ev) IN
    IF FoundInJson(file, ev, rd)
    THEN [seen |-> seen, file |-> file, outcome |-> "dup_json"]
    ELSE [seen |-> seen \cup {error_signature},
          file |-> save_error_to_json(file, ErrorDetail(ev, error_signature, url), sv),
          outcome |-> "accepted"]

\* handle_error without the membership test on seen_errors
HandleNoSeenCheck(seen, file, ev, url, rd, sv) ==
    AfterMembershipTest(seen, file, ev, url, rd, sv)

handle_error(seen, file, ev, url, rd, sv) ==
    IF EventSignature(ev) \in seen
    THEN [seen |-> seen, file |-> file, outcome |-> "dup_seen"]
    ELSE AfterMembershipTest(seen, file, ev, url, rd, sv)

\* awaits between the membership test and seen_errors.add, were the ledger
\* scan to suspend
AwaitsInLedgerScan == {"ledger_scan"}

\* the await expressions between the membership test (line 187) and
\* seen_errors.add (line 217): none, the ledger is read with blocking calls
AwaitsBeforeInsert == {}

(***************************************************************************)
(* URLs                                                                    *)
(***************************************************************************)
\* BASE_URL, another page of the same site, and a page of another site
BASE_URL == "https://site/"
SameSiteUrl == "https://site/other"
ExternalUrl == "https://elsewhere/"
Urls == {BASE_URL, SameSiteUrl, ExternalUrl}

\* urlparse(url).netloc
extract_domain(u) == IF u = ExternalUrl THEN "elsewhere" ELSE "site"

(***************************************************************************)
(* Fault events as the browser delivers them                               *)
(***************************************************************************)
Pad == [i \in 1..SigMessageLen |-> "a"]
MsgShort == <<"e">>
MsgLongX == Pad \o <<"x">>
MsgLongY == Pad \o <<"y">>
FileJs == PyStr(<<"f", ".", "j", "s">>)
\* error_details has no 'type' entry
NoType == "<absent>"

\* a fault located at f.js:1:1, and the same message at f.js:1:2
RawA == [err |-> MsgShort, filename |-> FileJs, lineno |-> PyInt(1), colno |-> PyInt(1), type |-> NoType]
RawB == [err |-> MsgShort, filename |-> FileJs, lineno |-> PyInt(1), colno |-> PyInt(2), type |-> NoType]
\* two faults without location whose messages agree on the first 200 characters
RawLongX == [err |-> MsgLongX, filename |-> Absent, lineno |-> Absent, colno |-> Absent, type |-> NoType]
RawLongY == [err |-> MsgLongY, filename |-> Absent, lineno |-> Absent, colno |-> Absent, type |-> "console.error"]

PageErrors == {RawLongX}
ConsoleErrors == {RawA, RawB}
Rejections == {RawA}
CustomErrors == {RawLongY}

\* the handle_error arguments a handler builds from a raw event
Event(raw, error_type, nav) ==
    [err |-> raw.err, error_type |-> error_type, filename |-> raw.filename,
     lineno |-> raw.lineno, colno |-> raw.colno, nav |-> nav]

\* error_details.get('filename') and error_details.get('lineno') and
\* error_details.get('filename') != 'Unknown'
NeedsCodeContext(raw) ==
    /\ Truthy(DictGet(raw.filename, PyNone))
    /\ Truthy(DictGet(raw.lineno, PyNone))
    /\ raw.filename # Unknown

(***************************************************************************)
(* Bounds                                                                  *)
(***************************************************************************)
\* handler tasks suspended in get_code_context_from_location
MaxHandlerTasks == 1
\* handler tasks alive at one time where handlers race
RacingHandlers == 2
\* events held in navigation_errors
MaxBuffered == 1
\* handle_navigation tasks alive at one time
MaxGuardTasks == 2
\* navigations started by the page itself (redirects, scripts)
MaxPageNavigations == 2
\* fault events and page navigations during a whole session
SessionFaults == 1
GuardFaults == 1
LiveNavigations == 1
SessionNavigations == 1
SessionGuardTasks == 1
\* length of the element list Phase 1 snapshots
MaxSnapshot == 1
SweepSnapshot == 2
\* iterations of the stress loop before its 15 seconds are over
MaxStressIterations == 1
\* MAX_ACTIONS (50 in the source), scaled down
MAX_ACTIONS == 2
\* suggestion items a dropdown shows
MaxSuggestions == 3

(***************************************************************************)
(* Code context                                                            *)
(***************************************************************************)
\* the characters str.strip() removes
Whitespace == {" ", "\n"}

\* s.split(sep) for a one-character separator: the pieces of s from
\* position i on
RECURSIVE SplitFrom(_, _, _)
SplitFrom(s, sep, i) ==
    IF \A j \in i..Len(s) : s[j] # sep THEN <<SubSeq(s, i, Len(s))>>
    ELSE LET j == CHOOSE j \in i..Len(s) :
                      s[j] = sep /\ \A k \in i..(j - 1) : s[k] # sep
         IN  <<SubSeq(s, i, j - 1)>> \o SplitFrom(s, sep, j + 1)

Split(s, sep) == SplitFrom(s, sep, 1)

\* s.strip()
Strip(s) ==
    LET kept == {i \in 1..Len(s) : s[i] \notin Whitespace}
    IN  IF kept = {} THEN <<>>
        ELSE SubSeq(s, CHOOSE i \in kept : \A k \in kept : i <= k,
                       CHOOSE i \in kept : \A k \in kept : i >= k)

Max(a, b) == IF a >= b THEN a ELSE b
Min(a, b) == IF a <= b THEN a ELSE b

\* line_number - 31 and line_number + 29, on 0-based line indices
ContextBefore == 31
ContextAfter == 29

ErrorMarker == <<">", ">", ">", " ">>
PlainMarker == <<" ", " ", " ", " ">>

\* the loop over range(i, end_line + 1) that builds context_string;
\* lines[k] of the code is lines[k + 1] here
RECURSIVE ContextString(_, _, _, _)
ContextString(lines, i, end_line, line_number) ==
    IF i > end_line THEN <<>>
    ELSE LET line_content == IF i < Len(lines) THEN lines[i + 1] ELSE <<>>
             is_error_line == (i = line_number - 1)
             marker == IF is_error_line THEN ErrorMarker ELSE PlainMarker
         IN  marker \o line_content \o <<"\n">>
                 \o ContextString(lines, i + 1, end_line, line_number)

extract_code_context(source_code, line_number) ==
    LET lines == Split(source_code, "\n")
        start_line == Max(0, line_number - ContextBefore)
        end_line == Min(Len(lines) - 1, line_number + ContextAfter)
    IN  Strip(ContextString(lines, start_line, end_line, line_number))

\* a source text of n lines whose lines are "x", except the empty ones
RECURSIVE SourceText(_, _, _)
SourceText(n, empty, i) ==
    IF i > n THEN <<>>
    ELSE (IF i \in empty THEN <<>> ELSE <<"x">>)
             \o (IF i < n THEN <<"\n">> ELSE <<>>)
             \o SourceText(n, empty, i + 1)

\* the longest source text, two lines more than a full window
MaxSourceLines == 63
SourceLengths == {1, 3, MaxSourceLines - 2, MaxSourceLines}
\* the lines that may be empty: the first and the last ones of the text
EmptyCandidates(n) == {1, 2, n - 1, n} \cap 1..n

\* the arguments of extract_code_context: a fetched source text of n lines
\* and the line number of the fault, 1 <= line_number <= n
ScriptsOf(n) ==
    {[source_code |-> SourceText(n, empty, 1), line_number |-> l] :
        empty \in SUBSET EmptyCandidates(n), l \in 1..n}
Scripts == UNION {ScriptsOf(n) : n \in SourceLengths}
\* no source text was fetched
NoScripts == {[source_code |-> <<>>, line_number |-> 0]}

(***************************************************************************)
(* discover_interactive_elements                                           *)
(***************************************************************************)
\* `t in s` for strings
Contains(s, t) ==
    \E i \in 1..(Len(s) - Len(t) + 1) : \A k \in 1..Len(t) : s[i + k - 1] = t[k]

\* interactive_selectors: the text of each selector, and the tag and the
\* type attribute it asks of an element ("*" when it asks none)
interactive_selectors == <<
    [text |-> <<"a", "[", "h", "r", "e", "f", "]">>,
     tag |-> "a", type |-> "*"],
    [text |-> <<"a", "[", "r", "o", "l", "e", "=", "'", "b", "u", "t", "t", "o", "n", "'", "]">>,
     tag |-> "a", type |-> "*"],
    [text |-> <<"a", "[", "t", "a", "b", "i", "n", "d", "e", "x", "]">>,
     tag |-> "a", type |-> "*"],
    [text |-> <<"b", "u", "t", "t", "o", "n">>,
     tag |-> "button", type |-> "*"],
    [text |-> <<"i", "n", "p", "u", "t", "[", "t", "y", "p", "e", "=", "'", "s", "u", "b", "m", "i", "t", "'", "]">>,
     tag |-> "input", type |-> "submit"],
    [text |-> <<"i", "n", "p", "u", "t", "[", "t", "y", "p", "e", "=", "'", "b", "u", "t", "t", "o", "n", "'", "]">>,
     tag |-> "input", type |-> "button"],
    [text |-> <<"i", "n", "p", "u", "t", "[", "t", "y", "p", "e", "=", "'", "r", "e", "s", "e", "t", "'", "]">>,
     tag |-> "input", type |-> "reset"],
    [text |-> <<"[", "r", "o", "l", "e", "=", "'", "b", "u", "t", "t", "o", "n", "'", "]">>,
     tag |-> "*", type |-> "*"],
    [text |-> <<"[", "t", "a", "b", "i", "n", "d", "e", "x", "]">>,
     tag |-> "*", type |-> "*"],
    [text |-> <<"i", "n", "p", "u", "t", "[", "t", "y", "p", "e", "=", "'", "t", "e", "x", "t", "'", "]">>,
     tag |-> "input", type |-> "text"],
    [text |-> <<"i", "n", "p", "u", "t", "[", "t", "y", "p", "e", "=", "'", "e", "m", "a", "i", "l", "'", "]">>,
     tag |-> "input", type |-> "email"],
    [text |-> <<"i", "n", "p", "u", "t", "[", "t", "y", "p", "e", "=", "'", "s", "e", "a", "r", "c", "h", "'", "]">>,
     tag |-> "input", type |-> "search"],
    [text |-> <<"i", "n", "p", "u", "t", "[", "t", "y", "p", "e", "=", "'", "p", "a", "s", "s", "w", "o", "r", "d", "'", "]">>,
     tag |-> "input", type |-> "password"],
    [text |-> <<"i", "n", "p", "u", "t", "[", "t", "y", "p", "e", "=", "'", "n", "u", "m", "b", "e", "r", "'", "]">>,
     tag |-> "input", type |-> "number"],
    [text |-> <<"i", "n", "p", "u", "t", "[", "t", "y", "p", "e", "=", "'", "t", "e", "l", "'", "]">>,
     tag |-> "input", type |-> "tel"],
    [text |-> <<"i", "n", "p", "u", "t", ":", "n", "o", "t", "(", "[", "t", "y", "p", "e", "]", ")">>,
     tag |-> "input", type |-> ""],
    [text |-> <<"t", "e", "x", "t", "a", "r", "e", "a">>,
     tag |-> "textarea", type |-> "*"],
    [text |-> <<"s", "e", "l", "e", "c", "t">>,
     tag |-> "select", type |-> "*"],
    [text |-> <<"[", "o", "n", "c", "l", "i", "c", "k", "]">>,
     tag |-> "*", type |-> "*"],
    [text |-> <<"[", "o", "n", "c", "h", "a", "n", "g", "e", "]">>,
     tag |-> "*", type |-> "*"],
    [text |-> <<"[", "o", "n", "s", "u", "b", "m", "i", "t", "]">>,
     tag |-> "*", type |-> "*"],
    [text |-> <<"[", "o", "n", "f", "o", "c", "u", "s", "]">>,
     tag |-> "*", type |-> "*"],
    [text |-> <<"[", "o", "n", "b", "l", "u", "r", "]">>,
     tag |-> "*", type |-> "*"],
    [text |-> <<"[", "d", "a", "t", "a", "-", "a", "c", "t", "i", "o", "n", "]">>,
     tag |-> "*", type |-> "*"],
    [text |-> <<"[", "d", "a", "t", "a", "-", "t", "o", "g", "g", "l", "e", "]">>,
     tag |-> "*", type |-> "*"],
    [text |-> <<"[", "d", "a", "t", "a", "-", "t", "a", "r", "g", "e", "t", "]">>,
     tag |-> "*", type |-> "*"],
    [text |-> <<".", "b", "t", "n">>,
     tag |-> "*", type |-> "*"],
    [text |-> <<".", "b", "u", "t", "t", "o", "n">>,
     tag |-> "*", type |-> "*"],
    [text |-> <<".", "c", "l", "i", "c", "k", "a", "b", "l", "e">>,
     tag |-> "*", type |-> "*"],
    [text |-> <<".", "i", "n", "t", "e", "r", "a", "c", "t", "i", "v", "e">>,
     tag |-> "*", type |-> "*"],
    [text |-> <<"[", "c", "l", "a", "s", "s", "*", "=", "'", "b", "t", "n", "'", "]">>,
     tag |-> "*", type |-> "*"],
    [text |-> <<"[", "c", "l", "a", "s", "s", "*", "=", "'", "b", "u", "t", "t", "o", "n", "'", "]">>,
     tag |-> "*", type |-> "*"],
    [text |-> <<"[", "c", "l", "a", "s", "s", "*", "=", "'", "c", "l", "i", "c", "k", "'", "]">>,
     tag |-> "*", type |-> "*"],
    [text |-> <<"[", "a", "r", "i", "a", "-", "l", "a", "b", "e", "l", "]">>,
     tag |-> "*", type |-> "*"],
    [text |-> <<"[", "a", "r", "i", "a", "-", "d", "e", "s", "c", "r", "i", "b", "e", "d", "b", "y", "]">>,
     tag |-> "*", type |-> "*"],
    [text |-> <<"[", "a", "r", "i", "a", "-", "c", "o", "n", "t", "r", "o", "l", "s", "]">>,
     tag |-> "*", type |-> "*"],
    [text |-> <<"[", "a", "r", "i", "a", "-", "e", "x", "p", "a", "n", "d", "e", "d", "]">>,
     tag |-> "*", type |-> "*"],
    [text |-> <<"[", "a", "r", "i", "a", "-", "s", "e", "l", "e", "c", "t", "e", "d", "]">>,
     tag |-> "*", type |-> "*"],
    [text |-> <<"[", "a", "r", "i", "a", "-", "c", "h", "e", "c", "k", "e", "d", "]">>,
     tag |-> "*", type |-> "*"],
    [text |-> <<"[", "d", "a", "t", "a", "-", "t", "e", "s", "t", "i", "d", "]">>,
     tag |-> "*", type |-> "*"],
    [text |-> <<"[", "d", "a", "t", "a", "-", "c", "y", "]">>,
     tag |-> "*", type |-> "*"],
    [text |-> <<"[", "d", "a", "t", "a", "-", "q", "a", "]">>,
     tag |-> "*", type |-> "*"],
    [text |-> <<"[", "c", "l", "a", "s", "s", "*", "=", "'", "c", "a", "r", "d", "'", "]">>,
     tag |-> "*", type |-> "*"],
    [text |-> <<"[", "c", "l", "a", "s", "s", "*", "=", "'", "i", "t", "e", "m", "'", "]">>,
     tag |-> "*", type |-> "*"],
    [text |-> <<"[", "c", "l", "a", "s", "s", "*", "=", "'", "p", "r", "o", "d", "u", "c", "t", "'", "]">>,
     tag |-> "*", type |-> "*"],
    [text |-> <<"[", "s", "t", "y", "l", "e", "*", "=", "'", "c", "u", "r", "s", "o", "r", ":", " ", "p", "o", "i", "n", "t", "e", "r", "'", "]">>,
     tag |-> "*", type |-> "*"],
    [text |-> <<"[", "s", "t", "y", "l", "e", "*", "=", "'", "c", "u", "r", "s", "o", "r", ":", "p", "o", "i", "n", "t", "e", "r", "'", "]">>,
     tag |-> "*", type |-> "*"],
    [text |-> <<"[", "c", "l", "a", "s", "s", "*", "=", "'", "h", "o", "v", "e", "r", "'", "]">>,
     tag |-> "*", type |-> "*"],
    [text |-> <<"[", "c", "l", "a", "s", "s", "*", "=", "'", "a", "c", "t", "i", "v", "e", "'", "]">>,
     tag |-> "*", type |-> "*"],
    [text |-> <<"[", "c", "l", "a", "s", "s", "*", "=", "'", "f", "o", "c", "u", "s", "'", "]">>,
     tag |-> "*", type |-> "*"]
>>

\* the tags of the elements of a page, and the type attributes of its
\* input elements ("" when the attribute is absent)
PageTags == {"a", "button", "input", "textarea", "select", "div"}
InputTypeAttrs ==
    {"", "text", "email", "search", "password", "number", "tel", "submit", "button",
     "reset", "checkbox"}
PageElements ==
    {[tag_name |-> t, type |-> ""] : t \in PageTags \ {"input"}}
        \cup {[tag_name |-> "input", type |-> ty] : ty \in InputTypeAttrs}

\* query_selector_all(selector) returns the element
Matches(selector, el) ==
    /\ selector.tag \in {"*", el.tag_name}
    /\ selector.type \in {"*", el.type}

\* the (selector, visible element) pairs that the loops of
\* discover_interactive_elements meet
SelectorMatches ==
    {[selector |-> interactive_selectors[i].text, tag_name |-> el.tag_name,
      type |-> el.type] :
        <<i, el>> \in {p \in (1..Len(interactive_selectors)) \X PageElements :
                          Matches(interactive_selectors[p[1]], p[2])}}
\* a page without visible elements
NoMatches == {[selector |-> <<>>, tag_name |-> "", type |-> ""]}

(***************************************************************************)
(* Arguments of generate_error_signature                                   *)
(***************************************************************************)
\* messages, filenames, line and column numbers that handle_error passes on
SigMessages == {<<"e">>, <<"e", "|", "f">>}
SigFilenames == {PyStr(<<"f">>), PyStr(<<>>), PyNone, PyStr(<<"f", "|", "1">>)}
SigNumbers == {PyInt(0), PyInt(1), PyNone, PyStr(<<>>)}
SigArguments ==
    [error_message : SigMessages, filename : SigFilenames, lineno : SigNumbers,
     colno : SigNumbers]
\* two calls of generate_error_signature
SigPairs == SigArguments \X SigArguments
NoSigArguments ==
    [error_message |-> <<>>, filename |-> PyNone, lineno |-> PyNone, colno |-> PyNone]
\* no call is made
NoSigPairs == {<<NoSigArguments, NoSigArguments>>}

(***************************************************************************)
(* State                                                                   *)
(***************************************************************************)
VARIABLES
    pc,                      \* position of main
    seen_errors,             \* global seen_errors
    file,                    \* contents of error.json
    last,                    \* the most recent handle_error call and its outcome
    io_failed,               \* some read or write of error.json has failed
    tested,                  \* signatures that have passed the membership test
    handler_tasks,           \* handlers awaiting the code context fetch
    navigation_in_progress,  \* global navigation_in_progress
    navigation_errors,       \* global navigation_errors
    guard,                   \* the handle_navigation tasks
    url,                     \* page.url
    page_navs,               \* navigations the page has started itself
    faults,                  \* fault events the page has raised
    limits,                  \* how many faults and navigations the page produces
    context,                 \* arguments and result of extract_code_context
    element_info,            \* the element_info that discover_interactive_elements builds
    signature_pair,          \* arguments and results of two generate_error_signature calls
    phase1,                  \* locals of click_all_links_and_buttons
    phase2,                  \* locals of test_input_fields_specifically
    visited_selectors,       \* global visited_selectors
    actions_done,            \* argument of recursive_monkey_exploration
    actions_performed,       \* self.actions_performed
    current,                 \* locals of the current call of Phase 3
    stress                   \* interactions of stress_test_interactions

pipelineVars == <<seen_errors, file, last, io_failed, tested>>
guardVars == <<navigation_in_progress, guard, url, page_navs>>
schedVars == <<phase1, phase2, visited_selectors, actions_done, actions_performed, current,
               stress>>

vars == <<pc, seen_errors, file, last, io_failed, tested, handler_tasks, navigation_in_progress,
          navigation_errors, guard, url, page_navs, faults, limits, context, element_info,
          signature_pair, phase1, phase2, visited_selectors, actions_done, actions_performed, current,
          stress>>

NoCall == [outcome |-> "none"]

\* a ledger left by an earlier execution
OldLedger ==
    [st |-> "ok",
     keys |-> {"timestamp", "base_url", "script_name", "last_updated", "total_errors"},
     total_errors |-> 1,
     errors |-> <<[ErrorDetail(Event(RawA, "console_error", FALSE),
                               EventSignature(Event(RawA, "console_error", FALSE)), BASE_URL)
                       EXCEPT !.timestamp = "earlier"]>>]

GuardSlots == 1..MaxGuardTasks
FreeSlot == [pc |-> "free", new_url |-> BASE_URL]

\* locals of Phase 1 outside the phase
NoPhase1 ==
    [snapshot |-> <<>>, i |-> 1, clicked_elements |-> {}, clicks |-> <<>>, tag_name |-> "",
     original_url |-> BASE_URL, current_url |-> BASE_URL, returned_from |-> "",
     succeeded |-> 0]

NoPhase2 ==
    [fields |-> 0, dropdown_len |-> 0, j |-> 0, source |-> 0, broke |-> FALSE, char |-> 0,
     through_clicks |-> 0, probe_clicks |-> 0, errors_before |-> <<>>]

NoElement == [element |-> "none", all_elements |-> {}]

\* what the page produces in a session: counted up to max, or not counted
Unlimited == [capped |-> FALSE, max |-> 0]
AtMost(n) == [capped |-> TRUE, max |-> n]
Within(limit, n) == ~limit.capped \/ n < limit.max

\* the outcomes of an operation on error.json: all of them, or success only
Disk(outcomes) == IF limits.disk_fails THEN outcomes ELSE {"ok"}

InitWith(l) ==
    /\ pc = "init"
    /\ seen_errors = {}
    /\ file \in {MissingFile, OldLedger}
    /\ last = NoCall
    /\ io_failed = FALSE
    /\ tested = {}
    /\ handler_tasks = <<>>
    /\ navigation_in_progress = FALSE
    /\ navigation_errors = <<>>
    /\ guard = [t \in GuardSlots |-> FreeSlot]
    /\ url = BASE_URL
    /\ page_navs = 0
    /\ faults = 0
    /\ limits = l
    /\ context \in {[source_code |-> c.source_code, line_number |-> c.line_number,
                      returned |-> FALSE, result |-> <<>>] :
                          c \in IF l.scripts THEN Scripts ELSE NoScripts}
    /\ element_info \in {[selector |-> d.selector, tag_name |-> d.tag_name, type |-> d.type,
                           interaction_type |-> ""] :
                               d \in IF l.matches THEN SelectorMatches ELSE NoMatches}
    /\ signature_pair \in {[first |-> q[1], second |-> q[2], strings |-> <<>>] :
                             q \in IF l.pairs THEN SigPairs ELSE NoSigPairs}
    /\ phase1 = NoPhase1
    /\ phase2 = NoPhase2
    /\ visited_selectors = {}
    /\ actions_done = 0
    /\ actions_performed = 0
    /\ current = NoElement
    /\ stress = 0

\* the page of a session: no anchor opens a new tab
SessionPage == {"ext", "link", "btn", "field"}
\* a page with an anchor that opens a new tab
SweepPage == {"ext", "link", "popup", "btn"}

\* a whole session
Init ==
    InitWith([faults |-> AtMost(SessionFaults), navs |-> AtMost(SessionNavigations),
              tasks |-> SessionGuardTasks, disk_fails |-> FALSE,
              handlers |-> MaxHandlerTasks,
              page |-> SessionPage, snapshot |-> MaxSnapshot,
              scripts |-> FALSE, matches |-> FALSE,
              pairs |-> FALSE])
\* a page that raises any number of faults and never navigates
PipelineInit ==
    InitWith([faults |-> Unlimited, navs |-> AtMost(0), tasks |-> 0, disk_fails |-> TRUE,
              handlers |-> MaxHandlerTasks,
              page |-> SessionPage, snapshot |-> MaxSnapshot,
              scripts |-> FALSE, matches |-> FALSE,
              pairs |-> FALSE])
\* the same page, with room for handler tasks that overtake each other
RaceInit ==
    InitWith([faults |-> Unlimited, navs |-> AtMost(0), tasks |-> 0, disk_fails |-> TRUE,
              handlers |-> RacingHandlers,
              page |-> SessionPage, snapshot |-> MaxSnapshot,
              scripts |-> FALSE, matches |-> FALSE,
              pairs |-> FALSE])
\* a page that navigates by itself and raises no fault
GuardInit ==
    InitWith([faults |-> AtMost(0), navs |-> AtMost(MaxPageNavigations),
              tasks |-> MaxGuardTasks, disk_fails |-> TRUE,
              handlers |-> MaxHandlerTasks,
              page |-> SessionPage, snapshot |-> MaxSnapshot,
              scripts |-> FALSE, matches |-> FALSE,
              pairs |-> FALSE])
\* a page that navigates by itself and raises a fault on the way
BufferInit ==
    InitWith([faults |-> AtMost(GuardFaults), navs |-> AtMost(MaxPageNavigations),
              tasks |-> MaxGuardTasks, disk_fails |-> TRUE,
              handlers |-> MaxHandlerTasks,
              page |-> SessionPage, snapshot |-> MaxSnapshot,
              scripts |-> FALSE, matches |-> FALSE,
              pairs |-> FALSE])
\* the same page, navigating by itself once
LiveInit ==
    InitWith([faults |-> AtMost(GuardFaults), navs |-> AtMost(LiveNavigations),
              tasks |-> MaxGuardTasks, disk_fails |-> TRUE,
              handlers |-> MaxHandlerTasks,
              page |-> SessionPage, snapshot |-> MaxSnapshot,
              scripts |-> FALSE, matches |-> FALSE,
              pairs |-> FALSE])
\* a quiet page with all kinds of clickable elements, for the sweep of Phase 1
SweepInit ==
    InitWith([faults |-> AtMost(0), navs |-> AtMost(0), tasks |-> SessionGuardTasks,
              disk_fails |-> TRUE, handlers |-> MaxHandlerTasks,
              page |-> SweepPage, snapshot |-> SweepSnapshot,
              scripts |-> FALSE, matches |-> FALSE,
              pairs |-> FALSE])
\* a page that neither raises faults nor navigates by itself
QuietInit ==
    InitWith([faults |-> AtMost(0), navs |-> AtMost(0), tasks |-> SessionGuardTasks,
              disk_fails |-> TRUE,
              handlers |-> MaxHandlerTasks,
              page |-> SessionPage, snapshot |-> MaxSnapshot,
              scripts |-> FALSE, matches |-> FALSE,
              pairs |-> FALSE])

(***************************************************************************)
(* main: start of the session                                              *)
(***************************************************************************)
\* initialize_error_json(), browser launch, handler registration, page.goto(BASE_URL)
StartSession ==
    /\ pc = "init"
    /\ \E io \in Disk(WriteOutcomes) :
          /\ file' = initialize_error_json(file, io)
          /\ io_failed' = (io # "ok")
    /\ pc' = "phase1"
    /\ UNCHANGED <<seen_errors, last, tested, handler_tasks, navigation_errors, guardVars,
                   faults, limits, context, element_info, signature_pair, schedVars>>

(***************************************************************************)
(* Fault handlers                                                          *)
(***************************************************************************)
\* the page raises one more fault
FaultRaised ==
    /\ Within(limits.faults, faults)
    /\ faults' = (IF limits.faults.capped THEN faults + 1 ELSE faults)
    /\ UNCHANGED <<limits, context, element_info, signature_pair, schedVars>>

\* the pipeline state p = [seen, file, last, io_failed, tested] after a
\* handle_error call on ev has returned r; test tells whether the call made
\* its membership test in this step
Returned(p, ev, r, rd, sv, test) ==
    [seen |-> r.seen,
     file |-> r.file,
     last |-> [ev |-> ev, outcome |-> r.outcome,
               saved |-> r.outcome = "accepted" /\ sv = "ok",
               retested |-> /\ test
                            /\ r.outcome # "dup_seen"
                            /\ EventSignature(ev) \in p.tested,
               reinserted |-> /\ r.outcome = "accepted"
                              /\ EventSignature(ev) \in p.seen],
     io_failed |-> \/ p.io_failed
                   \/ r.outcome # "dup_seen" /\ rd # "ok"
                   \/ r.outcome = "accepted" /\ sv # "ok",
     tested |-> IF r.outcome # "dup_seen"
                THEN p.tested \cup {EventSignature(ev)} ELSE p.tested]

\* one handle_error call on the pipeline state p
PipelineStep(p, ev, page_url, rd, sv) ==
    Returned(p, ev, handle_error(p.seen, p.file, ev, page_url, rd, sv), rd, sv, TRUE)

Pipeline ==
    [seen |-> seen_errors, file |-> file, last |-> last, io_failed |-> io_failed,
     tested |-> tested]

SetPipeline(p) ==
    /\ seen_errors' = p.seen
    /\ file' = p.file
    /\ last' = p.last
    /\ io_failed' = p.io_failed
    /\ tested' = p.tested

\* await handle_error(...) by a handler whose other suspended handlers are
\* waiting: the call runs up to its return, or up to an await that follows
\* a passed membership test
CallHandleError(ev, waiting) ==
    IF "ledger_scan" \in AwaitsBeforeInsert /\ EventSignature(ev) \notin seen_errors
    THEN /\ handler_tasks' = Append(waiting, [ev |-> ev, at |-> "ledger_scan"])
         /\ tested' = tested \cup {EventSignature(ev)}
         /\ UNCHANGED <<seen_errors, file, last, io_failed>>
    ELSE /\ \E rd \in Disk(ReadOutcomes), sv \in Disk(SaveOutcomes) :
                SetPipeline(PipelineStep(Pipeline, ev, url, rd, sv))
         /\ handler_tasks' = waiting

\* the part of a handler after error_details is built
FetchContextThenHandle(raw, ev) ==
    IF NeedsCodeContext(raw)
    THEN /\ Len(handler_tasks) < limits.handlers
         /\ handler_tasks' = Append(handler_tasks, [ev |-> ev, at |-> "code_context"])
         /\ UNCHANGED pipelineVars
    ELSE CallHandleError(ev, handler_tasks)

\* if navigation_in_progress: navigation_errors.append(...); flushed records
\* whether the flush loop of handle_navigation has reached the entry
BufferIfNavigating(raw) ==
    IF navigation_in_progress
    THEN /\ Len(navigation_errors) < MaxBuffered
         /\ navigation_errors' = Append(navigation_errors,
                                        [error |-> raw, flushed |-> FALSE])
    ELSE UNCHANGED navigation_errors

on_page_error ==
    /\ pc # "init"
    /\ FaultRaised
    /\ \E raw \in PageErrors :
        /\ BufferIfNavigating(raw)
        /\ FetchContextThenHandle(raw, Event(raw, "page_error", navigation_in_progress))
    /\ UNCHANGED <<pc, guardVars>>

on_console ==
    /\ pc # "init"
    /\ FaultRaised
    /\ \E raw \in ConsoleErrors :
        /\ BufferIfNavigating(raw)
        /\ FetchContextThenHandle(raw, Event(raw, "console_error", navigation_in_progress))
    /\ UNCHANGED <<pc, guardVars>>

on_promise_rejection ==
    /\ pc # "init"
    /\ FaultRaised
    /\ \E raw \in Rejections :
        FetchContextThenHandle(raw, Event(raw, "promise_rejection", FALSE))
    /\ UNCHANGED <<pc, navigation_errors, guardVars>>

on_custom_error ==
    /\ pc # "init"
    /\ FaultRaised
    /\ \E raw \in CustomErrors :
        FetchContextThenHandle(raw,
            Event(raw, IF raw.type = NoType THEN "custom_error" ELSE raw.type, FALSE))
    /\ UNCHANGED <<pc, navigation_errors, guardVars>>

\* a handler resumes after get_code_context_from_location and calls handle_error
HandlerResume ==
    /\ \E i \in 1..Len(handler_tasks) :
        LET task == handler_tasks[i]
            waiting == SubSeq(handler_tasks, 1, i - 1)
                         \o SubSeq(handler_tasks, i + 1, Len(handler_tasks))
        IN  IF task.at = "code_context"
            THEN CallHandleError(task.ev, waiting)
            ELSE /\ \E rd \in Disk(ReadOutcomes), sv \in Disk(SaveOutcomes) :
                        SetPipeline(Returned(Pipeline, task.ev,
                                             AfterMembershipTest(seen_errors, file, task.ev,
                                                                 url, rd, sv),
                                             rd, sv, FALSE))
                 /\ handler_tasks' = waiting
    /\ UNCHANGED <<pc, navigation_errors, guardVars, faults, limits, context, element_info, signature_pair, schedVars>>

(***************************************************************************)
(* Navigation guard: main.handle_navigation                                *)
(***************************************************************************)
original_url == BASE_URL

\* page.on("framenavigated", ...): a task is created for frame.url.  A task
\* for original_url returns at once without touching any state, and is not
\* given a slot.
CanSpawn(g, u) == u = original_url \/ \E t \in 1..limits.tasks : g[t].pc = "free"

framenavigated(g, u) ==
    IF u = original_url THEN g
    ELSE LET t == CHOOSE t \in GuardSlots :
                      /\ g[t].pc = "free"
                      /\ \A o \in GuardSlots : o < t => g[o].pc # "free"
         IN  [g EXCEPT ![t] = [pc |-> "start", new_url |-> u]]

\* the page navigates by itself (a redirect, a script, a form)
PageNavigates ==
    /\ pc # "init"
    /\ Within(limits.navs, page_navs)
    /\ \E u \in Urls :
        /\ CanSpawn(guard, u)
        /\ url' = u
        /\ guard' = framenavigated(guard, u)
    /\ page_navs' = page_navs + 1
    /\ UNCHANGED <<pc, pipelineVars, handler_tasks, navigation_in_progress, navigation_errors,
                   faults, limits, context, element_info, signature_pair, schedVars>>

\* navigation_in_progress = True; navigation_errors = []; then the task
\* awaits wait_for_load_state and sleep(2)
NavigationStart(t) ==
    /\ guard[t].pc = "start"
    /\ navigation_in_progress' = TRUE
    /\ navigation_errors' = <<>>
    /\ guard' = [guard EXCEPT ![t].pc = "wait"]

handle_navigation_start ==
    /\ \E t \in GuardSlots : NavigationStart(t)
    /\ UNCHANGED <<pc, pipelineVars, handler_tasks, url, page_navs, faults, limits, context, element_info, signature_pair, schedVars>>

\* for nav_error in navigation_errors: await handle_error(..., "navigation_error", ...)
RECURSIVE FlushFrom(_, _, _, _, _)
FlushFrom(p, buffered, page_url, ios, i) ==
    IF i > Len(buffered) THEN p
    ELSE FlushFrom(PipelineStep(p, Event(buffered[i].error, "navigation_error", TRUE),
                                page_url, ios[i][1], ios[i][2]),
                   buffered, page_url, ios, i + 1)

\* the buffered errors are handed to handle_error, then Method 1 is started
handle_navigation_flush ==
    /\ \E t \in GuardSlots :
        /\ guard[t].pc = "wait"
        /\ guard' = [guard EXCEPT ![t].pc = "method1"]
    /\ \E ios \in [1..Len(navigation_errors) -> Disk(ReadOutcomes) \X Disk(SaveOutcomes)] :
        SetPipeline(FlushFrom(Pipeline, navigation_errors, url, ios, 1))
    /\ navigation_errors' = [i \in DOMAIN navigation_errors |->
                                [navigation_errors[i] EXCEPT !.flushed = TRUE]]
    /\ UNCHANGED <<pc, handler_tasks, navigation_in_progress, url, page_navs,
                   faults, limits, context, element_info, signature_pair, schedVars>>

\* if current_domain == target_domain
ReloadAlways(page_url) == TRUE
ReloadAllowed(page_url) == extract_domain(page_url) = extract_domain(original_url)

\* the method that is tried after method k has failed, "end" after Method 5
MethodOutOfOrder(k, page_url) ==
    CASE k = 1 -> IF ReloadAllowed(page_url) THEN "method2" ELSE "method3"
      [] k = 2 -> "method4"
      [] k = 3 -> "method5"
      [] k = 4 -> "method3"
      [] OTHER -> "end"
MethodRetries(k, page_url) ==
    CASE k = 1 -> IF ReloadAllowed(page_url) THEN "method2" ELSE "method3"
      [] k = 2 -> "method3"
      [] k = 3 -> "method4"
      [] k = 4 -> "method5"
      [] OTHER -> "method1"
MethodAfter(k, page_url) ==
    CASE k = 1 -> IF ReloadAllowed(page_url) THEN "method2" ELSE "method3"
      [] k = 2 -> "method3"
      [] k = 3 -> "method4"
      [] k = 4 -> "method5"
      [] OTHER -> "end"

\* task t leaves method k without success
MethodFailed(t, k) ==
    IF MethodAfter(k, url) = "end"
    THEN /\ guard' = [guard EXCEPT ![t] = FreeSlot]
         /\ navigation_in_progress' = FALSE
         /\ UNCHANGED url
    ELSE /\ guard' = [guard EXCEPT ![t].pc = MethodAfter(k, url)]
         /\ UNCHANGED <<navigation_in_progress, url>>

\* await page.goto(original_url, ...) of method k returns or raises
GotoDone(t, name, k) ==
    /\ guard[t].pc = name
    /\ \/ /\ url' = original_url
          /\ guard' = [guard EXCEPT ![t].pc = "settle"]
          /\ UNCHANGED navigation_in_progress
       \/ MethodFailed(t, k)

\* await page.reload(...) returns or raises; the reload fires framenavigated
ReloadDone(t) ==
    /\ guard[t].pc = "method2"
    /\ \/ /\ CanSpawn(guard, url)
          /\ guard' = framenavigated([guard EXCEPT ![t].pc = "settle"], url)
          /\ UNCHANGED <<navigation_in_progress, url>>
       \/ MethodFailed(t, 2)

recovery_method1 ==
    /\ \E t \in GuardSlots : GotoDone(t, "method1", 1)
    /\ UNCHANGED <<pc, pipelineVars, handler_tasks, navigation_errors, page_navs,
                   faults, limits, context, element_info, signature_pair, schedVars>>

recovery_method2 ==
    /\ \E t \in GuardSlots : ReloadDone(t)
    /\ UNCHANGED <<pc, pipelineVars, handler_tasks, navigation_errors, page_navs,
                   faults, limits, context, element_info, signature_pair, schedVars>>

recovery_method3 ==
    /\ \E t \in GuardSlots : GotoDone(t, "method3", 3)
    /\ UNCHANGED <<pc, pipelineVars, handler_tasks, navigation_errors, page_navs,
                   faults, limits, context, element_info, signature_pair, schedVars>>

recovery_method4 ==
    /\ \E t \in GuardSlots : GotoDone(t, "method4", 4)
    /\ UNCHANGED <<pc, pipelineVars, handler_tasks, navigation_errors, page_navs,
                   faults, limits, context, element_info, signature_pair, schedVars>>

recovery_method5 ==
    /\ \E t \in GuardSlots : GotoDone(t, "method5", 5)
    /\ UNCHANGED <<pc, pipelineVars, handler_tasks, navigation_errors, page_navs,
                   faults, limits, context, element_info, signature_pair, schedVars>>

\* after the sleep that follows a successful method: navigation_in_progress = False
handle_navigation_end ==
    /\ \E t \in GuardSlots :
        /\ guard[t].pc = "settle"
        /\ guard' = [guard EXCEPT ![t] = FreeSlot]
    /\ navigation_in_progress' = FALSE
    /\ UNCHANGED <<pc, pipelineVars, handler_tasks, navigation_errors, url, page_navs,
                   faults, limits, context, element_info, signature_pair, schedVars>>

(***************************************************************************)
(* The page's elements                                                     *)
(***************************************************************************)
\* an anchor to another site, an anchor to another page of the site, a
\* button and a text input
Elements == {"ext", "link", "popup", "btn", "field"}

\* the elements that the page of this session has
Page == limits.page

\* el.tagName.toLowerCase()
TagName(e) ==
    CASE e \in {"ext", "link", "popup"} -> "a"
      [] e = "btn" -> "button"
      [] OTHER -> "input"

\* el.href || ''
Href(e) ==
    CASE e = "ext" -> ExternalUrl
      [] e \in {"link", "popup"} -> SameSiteUrl
      [] OTHER -> ""

\* el.target || ''
Target(e) == IF e = "popup" THEN "_blank" ELSE ""

\* ['_blank', '_new', '_top']
NewContextTargets == {"_blank", "_new", "_top"}

_determine_interaction_type(selector, tag_name) ==
    IF Contains(selector, <<"i", "n", "p", "u", "t">>)
           \/ tag_name \in {"input", "textarea", "select"}
    THEN "input"
    ELSE IF Contains(selector, <<"b", "u", "t", "t", "o", "n">>) \/ tag_name = "button"
    THEN "click"
    ELSE IF Contains(selector, <<"a", "[", "h", "r", "e", "f", "]">>) \/ tag_name = "a"
    THEN "click"
    ELSE "click"

\* the first selector of interactive_selectors that returns the element
FirstSelector(e) ==
    LET el == [tag_name |-> TagName(e), type |-> IF e = "field" THEN "text" ELSE ""]
        i == CHOOSE i \in 1..Len(interactive_selectors) :
                 /\ Matches(interactive_selectors[i], el)
                 /\ \A j \in 1..(i - 1) : ~Matches(interactive_selectors[j], el)
    IN  interactive_selectors[i].text

\* get_xpath: distinct elements have distinct paths
XPath(e) == e

\* _get_stable_dom_path of the element handle at position i of the snapshot:
\* the DOM path of the element, or f"element_{id(element)}" when evaluate raises
StableDomPath(e) == [dom |-> e, handle |-> 0]
FallbackPath(i) == [dom |-> "", handle |-> i]
DomPaths(e, i) == {StableDomPath(e), FallbackPath(i)}

\* elements that match clickable_selectors of Phase 1
Clickable == {e \in Page : TagName(e) # "input"}

\* _is_external_link
_is_external_link(href, target_domain) ==
    /\ href # ""
    /\ target_domain # ""
    /\ extract_domain(href) # target_domain

\* _is_same_domain
_is_same_domain(u, target_domain) ==
    /\ u # ""
    /\ target_domain # ""
    /\ extract_domain(u) = target_domain

\* sequences over S of length at most n
SeqsUpTo(S, n) == UNION {[1..k -> S] : k \in 0..n}

\* what a click on e does to the page: an anchor navigates to its href,
\* unless it opens the href in a new tab
ClickNavigates(e) == TagName(e) = "a" /\ Target(e) \notin NewContextTargets

\* element.click() on e succeeded
Clicked(e) ==
    IF ClickNavigates(e)
    THEN /\ CanSpawn(guard, Href(e))
         /\ url' = Href(e)
         /\ guard' = framenavigated(guard, Href(e))
    ELSE UNCHANGED <<url, guard>>

(***************************************************************************)
(* Phase 1: click_all_links_and_buttons                                    *)
(***************************************************************************)
\* the values that the local tag_name can hold when the discovery loops are
\* over: the tag of the element that was inspected last, which is the last
\* element of the snapshot or a later one whose inspection raised after
\* tag_name was assigned
LeftoverTags(snapshot) ==
    IF snapshot = <<>> THEN {""} ELSE {TagName(e) : e \in Clickable}

\* the snapshot of the clickable elements
phase1_discover ==
    /\ pc = "phase1"
    /\ \E snapshot \in SeqsUpTo(Clickable, limits.snapshot) :
        \E tag_name \in LeftoverTags(snapshot) :
            phase1' = [snapshot |-> snapshot, i |-> 1, clicked_elements |-> {},
                       clicks |-> <<>>, tag_name |-> tag_name,
                       original_url |-> url, current_url |-> url, returned_from |-> "",
                       succeeded |-> 0]
    /\ pc' = "phase1_loop"
    /\ UNCHANGED <<pipelineVars, handler_tasks, navigation_errors, guardVars, faults, limits, context, element_info, signature_pair,
                   phase2, visited_selectors, actions_done, actions_performed, current,
                   stress>>

\* if element_path in clicked_elements
NeverAlreadyClicked(element_path, clicked_elements) == FALSE
AlreadyClicked(element_path, clicked_elements) == element_path \in clicked_elements

\* the loop body up to and including the click
phase1_element ==
    /\ pc = "phase1_loop"
    /\ phase1.i <= Len(phase1.snapshot)
    /\ \E element_path \in DomPaths(phase1.snapshot[phase1.i], phase1.i) :
       LET e == phase1.snapshot[phase1.i]
           skip == [phase1 EXCEPT !.i = @ + 1, !.returned_from = ""]
           marked == [phase1 EXCEPT !.clicked_elements = @ \cup {element_path},
                                    !.returned_from = ""]
           attempted == [marked EXCEPT !.clicks = Append(@, element_path)]
       IN
       IF AlreadyClicked(element_path, phase1.clicked_elements)
       THEN /\ phase1' = skip
            /\ UNCHANGED <<pc, url, guard>>
       ELSE IF _is_external_link(IF TagName(e) = "a" THEN Href(e) ELSE "",
                                 extract_domain(phase1.original_url))
       THEN /\ phase1' = [marked EXCEPT !.i = @ + 1]
            /\ UNCHANGED <<pc, url, guard>>
       ELSE IF phase1.tag_name = "a" /\ Target(e) \in NewContextTargets
       THEN /\ phase1' = [marked EXCEPT !.i = @ + 1]
            /\ UNCHANGED <<pc, url, guard>>
       ELSE \/ \* the element is not enabled, or evaluate or scrolling raised
               /\ phase1' = [marked EXCEPT !.i = @ + 1]
               /\ UNCHANGED <<pc, url, guard>>
            \/ \* element.click raised
               /\ phase1' = [attempted EXCEPT !.i = @ + 1]
               /\ UNCHANGED <<pc, url, guard>>
            \/ /\ phase1' = [attempted EXCEPT !.current_url = url, !.succeeded = @ + 1]
               /\ Clicked(e)
               /\ pc' = "phase1_after"
    /\ UNCHANGED <<pipelineVars, handler_tasks, navigation_errors, navigation_in_progress,
                   page_navs, faults, limits, context, element_info, signature_pair, phase2, visited_selectors, actions_done,
                   actions_performed, current, stress>>

\* str.lower() on one character
LowerChar(c) ==
    CASE c = "A" -> "a"
      [] c = "B" -> "b"
      [] c = "C" -> "c"
      [] c = "D" -> "d"
      [] c = "E" -> "e"
      [] c = "F" -> "f"
      [] c = "G" -> "g"
      [] c = "H" -> "h"
      [] c = "I" -> "i"
      [] c = "J" -> "j"
      [] c = "K" -> "k"
      [] c = "L" -> "l"
      [] c = "M" -> "m"
      [] c = "N" -> "n"
      [] c = "O" -> "o"
      [] c = "P" -> "p"
      [] c = "Q" -> "q"
      [] c = "R" -> "r"
      [] c = "S" -> "s"
      [] c = "T" -> "t"
      [] c = "U" -> "u"
      [] c = "V" -> "v"
      [] c = "W" -> "w"
      [] c = "X" -> "x"
      [] c = "Y" -> "y"
      [] c = "Z" -> "z"
      [] OTHER -> c

\* s.lower()
Lower(s) == [i \in 1..Len(s) |-> LowerChar(s[i])]

\* external_indicators
external_indicators == {
    <<"l", "o", "g", "i", "n">>,
    <<"s", "i", "g", "n", " ", "i", "n">>,
    <<"s", "i", "g", "n", " ", "u", "p">>,
    <<"r", "e", "g", "i", "s", "t", "e", "r">>,
    <<"p", "a", "s", "s", "w", "o", "r", "d">>,
    <<"f", "a", "c", "e", "b", "o", "o", "k">>,
    <<"t", "w", "i", "t", "t", "e", "r">>,
    <<"g", "o", "o", "g", "l", "e">>,
    <<"m", "i", "c", "r", "o", "s", "o", "f", "t">>,
    <<"a", "p", "p", "l", "e">>,
    <<"a", "m", "a", "z", "o", "n">>,
    <<"e", "b", "a", "y">>,
    <<"p", "a", "y", "p", "a", "l">>,
    <<"s", "t", "r", "i", "p", "e">>,
    <<"c", "h", "e", "c", "k", "o", "u", "t">>,
    <<"4", "0", "4">>,
    <<"n", "o", "t", " ", "f", "o", "u", "n", "d">>,
    <<"e", "r", "r", "o", "r">>,
    <<"a", "c", "c", "e", "s", "s", " ", "d", "e", "n", "i", "e", "d">>
}

\* what the page shows after a click: the first 100 characters of its main
\* element ('' without one), and its title
NoMainContent == <<>>
ShortContent ==
    <<"n", "o", "t", " ", "f", "o", "u", "n", "d">>
PlainContent ==
    <<"w", "e", "l", "c", "o", "m", "e", " ", "t", "o", " ", "t", "h", "e", " ", "s",
      "h", "o", "p", " ", "o", "f", " ", "m", "a", "n", "y", " ", "t", "h", "i", "n",
      "g", "s">>
ErrorContent ==
    <<"E", "r", "r", "o", "r", ":", " ", "t", "h", "e", " ", "p", "r", "o", "d", "u",
      "c", "t", " ", "l", "i", "s", "t", " ", "d", "i", "d", " ", "n", "o", "t", " ",
      "l", "o", "a", "d">>
MainContents == {NoMainContent, ShortContent, PlainContent, ErrorContent}
OriginalTitle == "home"
Titles == {OriginalTitle, "other"}

_should_return_to_original(current_content, target_domain) ==
    IF current_content = <<>> \/ Len(current_content) < 10 THEN FALSE
    ELSE LET current_lower == Lower(current_content)
         IN  \E indicator \in external_indicators : Contains(current_lower, indicator)

\* the verdicts of _should_return_to_original on the contents a page shows;
\* the function does not use its target_domain argument
ContentVerdict ==
    [c \in MainContents |-> _should_return_to_original(c, extract_domain(BASE_URL))]

_has_significantly_changed(original_state, current_state) ==
    original_state.title # current_state.title \/ original_state.url # current_state.url

_should_return_based_on_state_change(original_state, current_state) ==
    original_state.title # current_state.title /\ original_state.url # current_state.url

\* await self.page.goto(original_url, wait_until="domcontentloaded")
GotoOriginal ==
    /\ url' = phase1.original_url
    /\ CanSpawn(guard, phase1.original_url)
    /\ guard' = framenavigated(guard, phase1.original_url)

\* after the click: a page outside the target domain is left again, and so
\* is a page whose content or state the heuristics take for another site.
\* returned_from records the URL that a return by content or state left.
phase1_after_click ==
    /\ pc = "phase1_after"
    /\ LET target_domain == extract_domain(phase1.original_url)
           offsite == url # phase1.current_url /\ ~_is_same_domain(url, target_domain)
       IN
       \/ \* page.goto raised after a navigation outside the target domain
          /\ offsite
          /\ phase1' = [phase1 EXCEPT !.i = @ + 1]
          /\ UNCHANGED <<url, guard>>
       \/ \* page.title() or page.evaluate raised
          /\ IF offsite THEN GotoOriginal ELSE UNCHANGED <<url, guard>>
          /\ phase1' = [phase1 EXCEPT !.i = @ + 1]
       \/ \E new_title \in Titles, main_content \in MainContents :
            LET after_domain == IF offsite THEN phase1.original_url ELSE url
                original_page_state ==
                    [title |-> OriginalTitle, url |-> phase1.original_url]
                checked == main_content # <<>> /\ Len(main_content) > 20
                by_content ==
                    checked /\ ContentVerdict[main_content]
                after_content == IF by_content THEN phase1.original_url ELSE after_domain
                \* the same test is made again on a fresh capture when the page
                \* has recorded pushState or replaceState events
                current_page_state == [title |-> new_title, url |-> after_content]
                by_state ==
                    /\ checked
                    /\ _has_significantly_changed(original_page_state, current_page_state)
                    /\ _should_return_based_on_state_change(original_page_state,
                                                            current_page_state)
            IN  /\ IF offsite \/ by_content \/ by_state
                   THEN GotoOriginal
                   ELSE UNCHANGED <<url, guard>>
                /\ phase1' = [phase1 EXCEPT
                                  !.i = @ + 1,
                                  !.returned_from =
                                      IF by_content THEN after_domain
                                      ELSE IF by_state THEN after_content
                                      ELSE ""]
    /\ pc' = "phase1_loop"
    /\ UNCHANGED <<pipelineVars, handler_tasks, navigation_errors, navigation_in_progress,
                   page_navs, faults, limits, context, element_info, signature_pair, phase2, visited_selectors, actions_done,
                   actions_performed, current, stress>>

\* the summary that click_all_links_and_buttons returns
clicking_summary(p) ==
    [total_elements_found |-> Len(p.snapshot),
     successfully_clicked |-> Cardinality(p.clicked_elements)]

\* the summary is returned and main goes on to Phase 2
phase1_finish ==
    /\ pc = "phase1_loop"
    /\ phase1.i > Len(phase1.snapshot)
    /\ phase1' = NoPhase1
    /\ pc' = "phase2"
    /\ UNCHANGED <<pipelineVars, handler_tasks, navigation_errors, guardVars, faults, limits, context, element_info, signature_pair,
                   phase2, visited_selectors, actions_done, actions_performed, current,
                   stress>>

(***************************************************************************)
(* Phase 2: test_input_fields_specifically                                 *)
(***************************************************************************)
\* test_chars = ["b", "c", "1", "test"]
test_chars == <<"b", "c", "1", "test">>

\* visible inputs the selectors match
Inputs == {e \in Page : TagName(e) = "input"}

\* lengths _find_dropdown_suggestions can return
DropdownLens == 0..MaxSuggestions

\* all_inputs is collected; without inputs main goes on to Phase 3
phase2_discover ==
    /\ pc = "phase2"
    /\ \E n \in 0..Cardinality(Inputs) :
        IF n = 0
        THEN /\ pc' = "phase3"
             /\ UNCHANGED phase2
        ELSE /\ pc' = "phase2_field"
             /\ phase2' = [NoPhase2 EXCEPT !.fields = n]
    /\ UNCHANGED <<pipelineVars, handler_tasks, navigation_errors, guardVars, faults, limits, context, element_info, signature_pair,
                   phase1, visited_selectors, actions_done, actions_performed, current,
                   stress>>

\* focus, clear and type "a", then look for the dropdown
phase2_field ==
    /\ pc = "phase2_field"
    /\ \/ \* scrolling, clicking or typing raised: the field is given up
          /\ phase2' = [phase2 EXCEPT !.errors_before = file.errors]
          /\ pc' = "phase2_next"
       \/ \E n \in DropdownLens :
          /\ phase2' = [phase2 EXCEPT !.dropdown_len = n,
                                      !.errors_before = file.errors]
          /\ pc' = IF n > 0 THEN "phase2_through" ELSE "phase2_chars"
    /\ UNCHANGED <<pipelineVars, handler_tasks, navigation_errors, guardVars, faults, limits, context, element_info, signature_pair,
                   phase1, visited_selectors, actions_done, actions_performed, current,
                   stress>>

\* if new_dropdown and len(new_dropdown) > j + 1: go on, else: break
ThroughGoesOn(new_len, j) == new_len > 0 /\ new_len > j + 1

\* The results of _find_dropdown_suggestions for one field are numbered:
\* 0 is dropdown_elements, the list found before the first click, and k is
\* new_dropdown of the re-probe that follows click k.  Iteration j clicks
\* the variable suggestion, which `for j, suggestion in
\* enumerate(dropdown_elements)` binds to dropdown_elements[j] at the start
\* of the iteration, over the new_dropdown[j + 1] that the iteration before
\* assigned to it: the number of the list the clicked suggestion is from
SuggestionSource(j) == 0

\* one iteration of the loop over dropdown_elements; j counts from 0 and is
\* dead once the loop is left; source is the number of the list that held
\* the suggestion clicked last
phase2_through ==
    /\ pc = "phase2_through"
    /\ LET leave(clicks, broke) ==
               /\ phase2' = [phase2 EXCEPT !.through_clicks = @ + clicks,
                                           !.source = IF clicks > 0
                                                      THEN SuggestionSource(phase2.j)
                                                      ELSE @,
                                           !.broke = broke,
                                           !.j = 0]
               /\ pc' = "phase2_chars"
       IN
       \/ \* reading the text of the suggestion raised
          leave(0, TRUE)
       \/ \* suggestion.click() raised
          leave(1, TRUE)
       \/ \* the click went through
          IF phase2.j < phase2.dropdown_len - 1
          THEN \/ \* typing "a" again raised
                  leave(1, TRUE)
               \/ \E new_len \in DropdownLens :
                    IF ThroughGoesOn(new_len, phase2.j)
                    THEN /\ phase2' = [phase2 EXCEPT !.through_clicks = @ + 1,
                                                     !.source = SuggestionSource(phase2.j),
                                                     !.j = @ + 1]
                         /\ UNCHANGED pc
                    ELSE leave(1, TRUE)
          ELSE leave(1, FALSE)
    /\ UNCHANGED <<pipelineVars, handler_tasks, navigation_errors, guardVars, faults, limits, context, element_info, signature_pair,
                   phase1, visited_selectors, actions_done, actions_performed, current,
                   stress>>

\* a probe that clicks every suggestion it reveals
ProbeClicksAll(new_len) == new_len

\* clicks on the suggestions a probe string reveals: the first one only
ProbeClicks(new_len) == IF new_len > 0 THEN 1 ELSE 0

\* one probe string, or after the last one the full text with Tab and Enter
phase2_chars ==
    /\ pc = "phase2_chars"
    /\ IF phase2.char < Len(test_chars)
       THEN /\ \/ \* typing the string or looking for the dropdown raised
                  phase2' = [phase2 EXCEPT !.char = @ + 1]
               \/ \E new_len \in DropdownLens :
                    phase2' = [phase2 EXCEPT !.char = @ + 1,
                                             !.probe_clicks = @ + ProbeClicks(new_len)]
            /\ UNCHANGED pc
       ELSE /\ pc' = "phase2_next"
            /\ UNCHANGED phase2
    /\ UNCHANGED <<pipelineVars, handler_tasks, navigation_errors, guardVars, faults, limits, context, element_info, signature_pair,
                   phase1, visited_selectors, actions_done, actions_performed, current,
                   stress>>

\* the field is left: the next input, or Phase 3 after the last one
phase2_next ==
    /\ pc = "phase2_next"
    /\ IF phase2.fields > 1
       THEN /\ phase2' = [NoPhase2 EXCEPT !.fields = phase2.fields - 1]
            /\ pc' = "phase2_field"
       ELSE /\ phase2' = NoPhase2
            /\ pc' = "phase3"
    /\ UNCHANGED <<pipelineVars, handler_tasks, navigation_errors, guardVars, faults, limits, context, element_info, signature_pair,
                   phase1, visited_selectors, actions_done, actions_performed, current,
                   stress>>

(***************************************************************************)
(* intelligent_interaction                                                 *)
(***************************************************************************)
\* _handle_click_interaction without any test of the link target clicks
\* the element when it is enabled and the click does not raise;
\* _handle_input_interaction clicks and fills the input
intelligent_interaction(e) ==
    IF _determine_interaction_type(FirstSelector(e), TagName(e)) = "input"
    THEN UNCHANGED <<url, guard>>
    ELSE \/ \* scrolling raised, the element is disabled, or the click raised
            UNCHANGED <<url, guard>>
         \/ Clicked(e)

(***************************************************************************)
(* Phase 3: recursive_monkey_exploration                                   *)
(***************************************************************************)
\* a ceiling test that lets one more call through
CeilingOffByOne(done) == done > MAX_ACTIONS

\* if actions_done >= MAX_ACTIONS: return
CeilingReached(done) == done >= MAX_ACTIONS

\* a set that keeps the last path only
ReplaceVisited(visited, xpath) == {xpath}

\* visited_selectors.add(xpath)
MarkVisited(visited, xpath) == visited \cup {xpath}

\* a filter that keeps the visited elements too
UnvisitedOrNot(all_elements, raised, visited) == all_elements \ raised

\* the filter loop: if xpath not in visited_selectors; raised holds the
\* elements for which get_xpath raises
Unvisited(all_elements, raised, visited) ==
    {e \in all_elements \ raised : XPath(e) \notin visited}

\* one call up to the choice of the element
phase3_select ==
    /\ pc = "phase3"
    /\ IF CeilingReached(actions_done)
       THEN /\ pc' = "phase4_check"
            /\ UNCHANGED <<visited_selectors, current>>
       ELSE \E all_elements \in SUBSET Page :
            \E raised \in SUBSET all_elements :
              LET unvisited_elements == Unvisited(all_elements, raised, visited_selectors)
              IN  IF all_elements = {} \/ unvisited_elements = {}
                  THEN /\ pc' = "phase4_check"
                       /\ current' = [element |-> "none", all_elements |-> all_elements]
                       /\ UNCHANGED visited_selectors
                  ELSE \E e \in unvisited_elements :
                          /\ visited_selectors' = MarkVisited(visited_selectors, XPath(e))
                          /\ current' = [element |-> e, all_elements |-> {}]
                          /\ pc' = "phase3_interact"
    /\ UNCHANGED <<pipelineVars, handler_tasks, navigation_errors, guardVars, faults, limits, context, element_info, signature_pair,
                   phase1, phase2, actions_done, actions_performed, stress>>

\* a counter that misses the interaction
SkipCount(performed) == performed
\* self.actions_performed += 1
CountInteraction(performed) == performed + 1

\* the interaction, the waits, and the recursive call
phase3_interact ==
    /\ pc = "phase3_interact"
    /\ intelligent_interaction(current.element)
    /\ actions_performed' = CountInteraction(actions_performed)
    /\ actions_done' = actions_done + 1
    /\ current' = NoElement
    /\ pc' = "phase3"
    /\ UNCHANGED <<pipelineVars, handler_tasks, navigation_errors, navigation_in_progress,
                   page_navs, faults, limits, context, element_info, signature_pair, phase1, phase2, visited_selectors, stress>>

(***************************************************************************)
(* Phase 4: stress_test_interactions                                       *)
(***************************************************************************)
\* a test that also lets a session at the ceiling through
StressAtCeiling(performed) == performed <= MAX_ACTIONS
\* if blind_strategy.actions_performed < MAX_ACTIONS: stress test
StressAllowed(performed) == performed < MAX_ACTIONS

phase4_check ==
    /\ pc = "phase4_check"
    /\ pc' = IF StressAllowed(actions_performed) THEN "phase4" ELSE "done"
    /\ current' = NoElement
    /\ UNCHANGED <<pipelineVars, handler_tasks, navigation_errors, guardVars, faults, limits, context, element_info, signature_pair,
                   phase1, phase2, visited_selectors, actions_done, actions_performed,
                   stress>>

\* one iteration of the loop, or its end: time is up or nothing was discovered
phase4_iterate ==
    /\ pc = "phase4"
    /\ \/ /\ pc' = "done"
          /\ UNCHANGED <<url, guard, stress>>
       \/ /\ stress < MaxStressIterations
          /\ \E e \in Page : intelligent_interaction(e)
          /\ stress' = stress + 1
          /\ UNCHANGED pc
    /\ UNCHANGED <<pipelineVars, handler_tasks, navigation_errors, navigation_in_progress,
                   page_navs, faults, limits, context, element_info, signature_pair, phase1, phase2, visited_selectors, actions_done,
                   actions_performed, current>>

(***************************************************************************)
(* get_code_context_from_location                                          *)
(***************************************************************************)
\* the source text has been fetched: `if source_code:` hands it to
\* extract_code_context and returns its result
get_code_context_from_location ==
    /\ ~context.returned
    /\ context.source_code # <<>>
    /\ context' = [context EXCEPT
                       !.returned = TRUE,
                       !.result = extract_code_context(context.source_code,
                                                       context.line_number)]
    /\ UNCHANGED <<pc, pipelineVars, handler_tasks, navigation_errors, guardVars, faults,
                   limits, element_info, signature_pair, schedVars>>

(***************************************************************************)
(* discover_interactive_elements: one (selector, element) pair             *)
(***************************************************************************)
\* the element is visible, and its element_info is appended to all_elements
discover_interactive_elements ==
    /\ element_info.selector # <<>>
    /\ element_info.interaction_type = ""
    /\ element_info' =
           [element_info EXCEPT
                !.interaction_type =
                    _determine_interaction_type(element_info.selector,
                                                element_info.tag_name)]
    /\ UNCHANGED <<pc, pipelineVars, handler_tasks, navigation_errors, guardVars, faults,
                   limits, context, signature_pair, schedVars>>

(***************************************************************************)
(* handle_error: the signature of two events                               *)
(***************************************************************************)
\* generate_error_signature is called for one event and for another
generate_signatures ==
    /\ signature_pair.strings = <<>>
    /\ signature_pair.first # NoSigArguments
    /\ signature_pair' =
           [signature_pair EXCEPT
                !.strings =
                    <<generate_error_signature("unknown", signature_pair.first.error_message,
                                               signature_pair.first.filename,
                                               signature_pair.first.lineno,
                                               signature_pair.first.colno),
                      generate_error_signature("unknown", signature_pair.second.error_message,
                                               signature_pair.second.filename,
                                               signature_pair.second.lineno,
                                               signature_pair.second.colno)>>]
    /\ UNCHANGED <<pc, pipelineVars, handler_tasks, navigation_errors, guardVars, faults,
                   limits, context, element_info, schedVars>>

(***************************************************************************)
(* Specifications                                                          *)
(***************************************************************************)
\* the error pipeline alone: the page stays on BASE_URL
PipelineNext ==
    \/ StartSession
    \/ on_page_error
    \/ on_console
    \/ on_promise_rejection
    \/ on_custom_error
    \/ HandlerResume

PipelineSpec == PipelineInit /\ [][PipelineNext]_vars

\* the session restricted to the console and unhandled-rejection channels
TwoChannelNext ==
    \/ StartSession
    \/ on_console
    \/ on_promise_rejection
    \/ HandlerResume

TwoChannelSpec == PipelineInit /\ [][TwoChannelNext]_vars

\* the same two channels with handler tasks that overtake each other
RaceSpec == RaceInit /\ [][TwoChannelNext]_vars

\* the guard against a page that navigates by itself
GuardNext ==
    \/ StartSession
    \/ PageNavigates
    \/ handle_navigation_start
    \/ handle_navigation_flush
    \/ recovery_method1
    \/ recovery_method2
    \/ recovery_method3
    \/ recovery_method4
    \/ recovery_method5
    \/ handle_navigation_end

GuardSpec == GuardInit /\ [][GuardNext]_vars

\* the guard against a page that navigates by itself and raises faults
BufferNext ==
    \/ GuardNext
    \/ on_page_error
    \/ on_console
    \/ on_promise_rejection
    \/ on_custom_error
    \/ HandlerResume

BufferSpec == BufferInit /\ [][BufferNext]_vars

\* a step of the handle_navigation task in slot t
GuardTaskStep(t) ==
    /\ guard[t].pc # "free"
    /\ \/ handle_navigation_start
       \/ handle_navigation_flush
       \/ recovery_method1
       \/ recovery_method2
       \/ recovery_method3
       \/ recovery_method4
       \/ recovery_method5
       \/ handle_navigation_end
    /\ guard'[t] # guard[t]

\* every await of handle_navigation has a timeout or is a sleep, and the
\* event loop resumes every task whose await is over
BufferLiveSpec == LiveInit /\ [][BufferNext]_vars /\ \A t \in GuardSlots : WF_vars(GuardTaskStep(t))

\* Phase 1 together with the guard
SweepNext ==
    \/ StartSession
    \/ phase1_discover
    \/ phase1_element
    \/ phase1_after_click
    \/ phase1_finish
    \/ handle_navigation_start
    \/ handle_navigation_flush
    \/ recovery_method1
    \/ recovery_method2
    \/ recovery_method3
    \/ recovery_method4
    \/ recovery_method5
    \/ handle_navigation_end

SweepSpec == SweepInit /\ [][SweepNext]_vars

\* the scheduler together with the guard, on a quiet page
SchedulerNext ==
    \/ StartSession
    \/ phase1_discover
    \/ phase1_element
    \/ phase1_after_click
    \/ phase1_finish
    \/ phase2_discover
    \/ phase2_field
    \/ phase2_through
    \/ phase2_chars
    \/ phase2_next
    \/ phase3_select
    \/ phase3_interact
    \/ phase4_check
    \/ phase4_iterate
    \/ handle_navigation_start
    \/ handle_navigation_flush
    \/ recovery_method1
    \/ recovery_method2
    \/ recovery_method3
    \/ recovery_method4
    \/ recovery_method5
    \/ handle_navigation_end

SchedulerSpec == QuietInit /\ [][SchedulerNext]_vars

\* extract_code_context on every source text and line number of Scripts
ContextInit ==
    InitWith([faults |-> AtMost(0), navs |-> AtMost(0), tasks |-> SessionGuardTasks,
              disk_fails |-> TRUE, handlers |-> MaxHandlerTasks,
              page |-> SessionPage, snapshot |-> MaxSnapshot,
              scripts |-> TRUE, matches |-> FALSE,
              pairs |-> FALSE])

ContextNext ==
    \/ get_code_context_from_location

ContextSpec == ContextInit /\ [][ContextNext]_vars

\* discovery on every selector of the battery and every element it returns
DiscoveryInit ==
    InitWith([faults |-> AtMost(0), navs |-> AtMost(0), tasks |-> SessionGuardTasks,
              disk_fails |-> TRUE, handlers |-> MaxHandlerTasks,
              page |-> SessionPage, snapshot |-> MaxSnapshot,
              scripts |-> FALSE, matches |-> TRUE,
              pairs |-> FALSE])

DiscoveryNext ==
    \/ discover_interactive_elements

DiscoverySpec == DiscoveryInit /\ [][DiscoveryNext]_vars

\* generate_error_signature on every pair of SigPairs
SignatureInit ==
    InitWith([faults |-> AtMost(0), navs |-> AtMost(0), tasks |-> SessionGuardTasks,
              disk_fails |-> TRUE, handlers |-> MaxHandlerTasks,
              page |-> SessionPage, snapshot |-> MaxSnapshot,
              scripts |-> FALSE, matches |-> FALSE, pairs |-> TRUE])

SignatureNext ==
    \/ generate_signatures

SignatureSpec == SignatureInit /\ [][SignatureNext]_vars

\* the whole session
Next ==
    \/ SchedulerNext
    \/ PageNavigates
    \/ on_page_error
    \/ on_console
    \/ on_promise_rejection
    \/ on_custom_error
    \/ HandlerResume

Spec == Init /\ [][Next]_vars

(***************************************************************************)
(* Properties                                                              *)
(***************************************************************************)
\* records of the ledger as read back (none when the file cannot be loaded)
LedgerErrors == IF file.st = "ok" THEN file.errors ELSE <<>>

\* positions of the records written in this execution that carry signature sig
SessionRecordsWith(sig) ==
    {i \in 1..Len(LedgerErrors) :
        /\ LedgerErrors[i].timestamp = "session"
        /\ LedgerErrors[i].error_signature = sig}

\* C1 as stated, read for the runs in which no ledger I/O has failed: the
\* ledger never holds two records with one signature, and once an event has
\* been handled the ledger holds a record with its signature.
C1_ExactlyOnePerGroup ==
    ~io_failed =>
    /\ \A i, j \in 1..Len(LedgerErrors) :
          i # j => LedgerErrors[i].error_signature # LedgerErrors[j].error_signature
    /\ last # NoCall => SessionRecordsWith(EventSignature(last.ev)) # {}

\* C1 amended: no two records written in this execution share a signature; an
\* event that handle_error accepts and saves has exactly one record; an event
\* rejected by the ledger scan leaves a record with its message, filename and
\* line in the ledger.
C1_AtMostOnePerSignature ==
    /\ \A i, j \in 1..Len(LedgerErrors) :
          (/\ i # j
           /\ LedgerErrors[i].timestamp = "session"
           /\ LedgerErrors[j].timestamp = "session")
          => LedgerErrors[i].error_signature # LedgerErrors[j].error_signature
    /\ (last # NoCall /\ last.saved)
          => Cardinality(SessionRecordsWith(EventSignature(last.ev))) = 1
    /\ (last # NoCall /\ last.outcome = "dup_json")
          => \E i \in 1..Len(LedgerErrors) :
                /\ LedgerErrors[i].error_message = last.ev.err
                /\ LedgerErrors[i].filename = DictGet(last.ev.filename, Unknown)
                /\ LedgerErrors[i].line_number = DictGet(last.ev.lineno, Unknown)

\* C1 witness: an event of one channel was rejected because another channel
\* had already persisted a record with its signature.
C1_Witness ==
    /\ last # NoCall
    /\ last.outcome = "dup_seen"
    /\ \E i \in SessionRecordsWith(EventSignature(last.ev)) :
          LedgerErrors[i].error_type # last.ev.error_type

\* the ledger after handling first and then second, under the given I/O outcomes
HandleBoth(first, second, rd1, sv1, rd2, sv2) ==
    LET one == handle_error(seen_errors, file, first, url, rd1, sv1)
    IN  handle_error(one.seen, one.file, second, url, rd2, sv2)

\* a ledger without the fields a record takes from the reporting channel
WithoutChannel(f) ==
    [f EXCEPT !.errors =
        [i \in 1..Len(f.errors) |->
            [error_signature |-> f.errors[i].error_signature,
             error_message |-> f.errors[i].error_message,
             timestamp |-> f.errors[i].timestamp,
             url |-> f.errors[i].url,
             filename |-> f.errors[i].filename,
             line_number |-> f.errors[i].line_number,
             column_number |-> f.errors[i].column_number]]]

AllRaw == PageErrors \cup ConsoleErrors \cup Rejections \cup CustomErrors

\* C2 as stated: a console error and an unhandled rejection with the same
\* message, filename, line and column leave the same ledger in either order.
C2_OrderIndependentLedger ==
    pc # "init" =>
    \A raw \in AllRaw, rd1, rd2 \in ReadOutcomes, sv1, sv2 \in SaveOutcomes :
        LET c == Event(raw, "console_error", FALSE)
            r == Event(raw, "promise_rejection", FALSE)
        IN  HandleBoth(c, r, rd1, sv1, rd2, sv2).file
                = HandleBoth(r, c, rd1, sv1, rd2, sv2).file

\* C2 amended: in either order the ledger holds the same records up to the
\* fields taken from the channel (error_type, navigation_context), the
\* signature set is the same, and, when the duplicate scans can read the
\* ledger, a record added for the pair carries the error_type of the event
\* handled first.
C2_OrderIndependentUpToChannel ==
    pc # "init" =>
    \A raw \in AllRaw, nav \in BOOLEAN, rd1, rd2 \in ReadOutcomes, sv1, sv2 \in SaveOutcomes :
        LET c == Event(raw, "console_error", nav)
            r == Event(raw, "promise_rejection", FALSE)
            cr == HandleBoth(c, r, rd1, sv1, rd2, sv2)
            rc == HandleBoth(r, c, rd1, sv1, rd2, sv2)
        IN  /\ WithoutChannel(cr.file) = WithoutChannel(rc.file)
            /\ cr.seen = rc.seen
            /\ \A i \in 1..Len(cr.file.errors) :
                  (/\ rd1 = "ok" /\ rd2 = "ok"
                   /\ cr.file.errors[i].error_signature = EventSignature(c)
                   /\ cr.file.errors[i].timestamp = "session"
                   /\ cr.file.errors[i] # rc.file.errors[i])
                  => /\ cr.file.errors[i].error_type = "console_error"
                     /\ rc.file.errors[i].error_type = "promise_rejection"

\* C2 witness: a ledger to which the pair adds one record, whose type is the
\* first event's.
C2_Witness ==
    /\ pc # "init"
    /\ file.st = "ok"
    /\ \E raw \in AllRaw :
        LET c == Event(raw, "console_error", FALSE)
            r == Event(raw, "promise_rejection", FALSE)
            cr == HandleBoth(c, r, "ok", "ok", "ok", "ok")
            rc == HandleBoth(r, c, "ok", "ok", "ok", "ok")
        IN  /\ Len(cr.file.errors) = Len(file.errors) + 1
            /\ Len(rc.file.errors) = Len(file.errors) + 1
            /\ cr.file.errors[Len(cr.file.errors)].error_type = "console_error"
            /\ rc.file.errors[Len(rc.file.errors)].error_type = "promise_rejection"

\* C3 as stated: with N signatures accepted, the ledger read back has
\* total_errors = N and N entries, whatever I/O failed.
C3_LedgerCountsAccepted ==
    pc # "init" =>
        /\ file.st = "ok"
        /\ "total_errors" \in file.keys
        /\ file.total_errors = Cardinality(seen_errors)
        /\ Len(file.errors) = Cardinality(seen_errors)

\* C4 as stated: every successful write of the ledger leaves total_errors
\* present and equal to the number of records.
C4_TotalMatchesAfterWrite ==
    [][(file' # file /\ file'.st = "ok")
          => /\ "total_errors" \in file'.keys
             /\ file'.total_errors = Len(file'.errors)]_vars

\* C7 as stated, for a single navigation away from the origin: an activation
\* that ends after one of its strategies succeeded leaves the guard Idle and
\* the page on the origin URL.
C7_SuccessEndsIdleAtOrigin ==
    [][\A t \in GuardSlots :
          (/\ guard[t].pc = "settle"
           /\ guard'[t].pc = "free"
           /\ guard[t].new_url # original_url
           /\ page_navs = 1)
          => /\ ~navigation_in_progress'
             /\ url' = original_url]_vars

\* C8 as stated: the guard is never set to InProgress while it is InProgress.
C8_NoReentry ==
    [][\A t \in GuardSlots :
          (guard[t].pc = "start" /\ guard'[t].pc = "wait")
          => ~navigation_in_progress]_vars

\* C5: Phase 3 dispatches at most MAX_ACTIONS interactions: neither the depth
\* of the recursion nor the count of interactions performed exceeds it
C5_AtMostMaxActions ==
    /\ actions_done <= MAX_ACTIONS
    /\ actions_performed <= MAX_ACTIONS

\* the ceiling stopped the recursion after MAX_ACTIONS interactions
C5_Witness ==
    /\ pc = "phase4_check"
    /\ actions_done = MAX_ACTIONS
    /\ actions_performed = MAX_ACTIONS

\* C6: no step of the session takes a path out of visited_selectors
C6_VisitedNeverShrinks == [][visited_selectors \subseteq visited_selectors']_vars

\* two paths are marked, a guard task is alive and a fault has been handled
C6_Witness ==
    /\ Cardinality(visited_selectors) >= 2
    /\ \E t \in GuardSlots : guard[t].pc # "free"
    /\ last # NoCall

\* C9: no click of the session sends the page to the external site, so no
\* guard task is started for the external URL except by the page itself
C9_ExternalNeverClicked ==
    [][\A t \in GuardSlots :
          ~ /\ guard[t].pc = "free"
            /\ guard'[t].pc = "start"
            /\ guard'[t].new_url = ExternalUrl
            /\ page_navs' = page_navs]_vars

C11_OneInteractionInFlight ==
    [][(/\ schedVars' # schedVars \/ pc' # pc
        /\ url' # url)
       => \A t \in GuardSlots :
             guard[t].pc \notin {"method1", "method2", "method3", "method4", "method5"}]_vars

\* C12 as stated: no two handle_error calls with one signature both pass the
\* membership test
C12_OnePassPerSignature == (last # NoCall /\ ~io_failed) => ~last.retested

\* C12 amended: no two handle_error calls with one signature both pass the
\* membership test and insert the signature; every inserted signature has
\* passed the test
C12_NoDoubleInsert ==
    /\ last # NoCall => ~last.reinserted
    /\ seen_errors \subseteq tested

\* a call was stopped at the membership test while another handler for the
\* same signature is suspended
C12_Witness ==
    /\ last # NoCall
    /\ last.outcome = "dup_seen"
    /\ \E i \in 1..Len(handler_tasks) :
          EventSignature(handler_tasks[i].ev) = EventSignature(last.ev)

\* C13: while the guard is in progress, a fault event of any channel is
\* appended to navigation_errors and is neither handed to handle_error by
\* its own handler nor left with a handler task that will do so
C13_BufferedNotHandled ==
    [][(navigation_in_progress /\ faults' # faults)
       => /\ Len(navigation_errors') = Len(navigation_errors) + 1
          /\ handler_tasks' = handler_tasks
          /\ UNCHANGED pipelineVars]_vars

\* C14: when a guard activation returns the guard to Idle, every entry of
\* navigation_errors has been handed to handle_error by the flush loop
C14_FlushedBeforeIdle ==
    [][(navigation_in_progress /\ ~navigation_in_progress')
       => \A i \in 1..Len(navigation_errors) : navigation_errors[i].flushed]_vars

\* C15: every handle_navigation task that has started ends, and leaves
\* navigation_in_progress False when it does
C15_ActivationEndsIdle ==
    \A t \in GuardSlots :
        (guard[t].pc # "free") ~> (guard[t].pc = "free" /\ ~navigation_in_progress)

\* the flush of a buffered event met a failing ledger, no method brought
\* the page back from the other site, and the guard is Idle again
C15_Witness ==
    /\ \A t \in GuardSlots : guard[t].pc = "free"
    /\ ~navigation_in_progress
    /\ url = ExternalUrl
    /\ io_failed
    /\ last # NoCall
    /\ last.ev.error_type = "navigation_error"

\* position of a recovery method in the text of handle_navigation
MethodRank(name) ==
    CASE name = "method1" -> 1
      [] name = "method2" -> 2
      [] name = "method3" -> 3
      [] name = "method4" -> 4
      [] name = "method5" -> 5
      [] OTHER -> 0

\* C16: a task starts Method 1 after the flush only; it starts Method k > 1
\* only when the method before it has failed (Method 3 also when Method 1
\* has failed and Method 2 is skipped); after a method has succeeded it
\* starts no method
C16_MethodsInOrder ==
    [][\A t \in GuardSlots :
        LET from == guard[t].pc
            to == guard'[t].pc
        IN  /\ (MethodRank(to) = 1 /\ from # to) => from = "wait"
            /\ (MethodRank(to) > 1 /\ from # to)
                  => \/ MethodRank(from) = MethodRank(to) - 1
                     \/ MethodRank(from) = 1 /\ MethodRank(to) = 3
            /\ from = "settle" => to \in {"settle", "free"}]_vars

\* a task has come to Method 5
C16_Witness == \E t \in GuardSlots : guard[t].pc = "method5"

\* C17: when Method 1 has failed the task goes on to the reload of Method 2
\* if the page is on the domain of original_url, and to Method 3, without a
\* reload, if it is not
C17_ReloadOnSameDomainOnly ==
    [][\A t \in GuardSlots :
        (guard[t].pc = "method1" /\ guard'[t].pc \notin {"method1", "settle"})
            => guard'[t].pc = (IF extract_domain(url) = extract_domain(original_url)
                               THEN "method2" ELSE "method3")]_vars

\* the page went to the other site once and the task is in Method 3
C17_Witness ==
    /\ page_navs = 1
    /\ url = ExternalUrl
    /\ \E t \in GuardSlots : guard[t].pc = "method3"

\* C18: Phase 1 never clicks an anchor whose target opens a new browsing
\* context
C18_NoNewContextClick ==
    pc = "phase1_after" => Target(phase1.snapshot[phase1.i]) \notin NewContextTargets

\* C19: in one sweep of Phase 1 no element path has more than one click
\* attempt
C19_OneClickPerPath ==
    \A i, j \in 1..Len(phase1.clicks) : i # j => phase1.clicks[i] # phase1.clicks[j]

\* the snapshot held one element twice; its first entry was clicked and its
\* second entry was skipped as a duplicate
C19_Witness ==
    /\ pc = "phase1_loop"
    /\ phase1.i = 3
    /\ phase1.snapshot[1] = phase1.snapshot[2]
    /\ phase1.clicks = <<StableDomPath(phase1.snapshot[1])>>
    /\ phase1.clicked_elements = {StableDomPath(phase1.snapshot[1])}

\* C20: when Phase 3 has stopped, MAX_ACTIONS calls have been made, or the
\* last discovery returned no element, or the path of every element it
\* returned is in visited_selectors
C20_StopsOnlyWhenExhausted ==
    pc = "phase4_check"
        => \/ actions_done >= MAX_ACTIONS
           \/ current.all_elements = {}
           \/ \A e \in current.all_elements : XPath(e) \in visited_selectors

\* C21: a call of Phase 3 selects an element whose path is not in
\* visited_selectors and adds the path before the interaction starts; the
\* path is in visited_selectors during the interaction and after it,
\* whatever the interaction did.  With C6 no path is selected twice.
C21_SelectedOnceAndKept ==
    [][/\ (pc = "phase3" /\ pc' = "phase3_interact")
            => /\ XPath(current'.element) \notin visited_selectors
               /\ XPath(current'.element) \in visited_selectors'
       /\ pc = "phase3_interact"
            => /\ XPath(current.element) \in visited_selectors
               /\ XPath(current.element) \in visited_selectors']_vars

\* the second call of Phase 3 is interacting with its element
C21_Witness ==
    /\ pc = "phase3_interact"
    /\ actions_done = 1
    /\ Cardinality(visited_selectors) = 2

\* C22: an element that Phase 1 has clicked has its path in
\* visited_selectors after the click
C22_ClickedIsVisited ==
    [][(pc = "phase1_loop" /\ pc' = "phase1_after")
          => XPath(phase1.snapshot[phase1.i]) \in visited_selectors']_vars

\* C23: when Phase 3 has ended, Phase 4 starts if and only if Phase 3 made
\* fewer than MAX_ACTIONS interactions, and the stress loop makes an
\* interaction only in that case
C23_StressOnlyUnderCeiling ==
    [][/\ (pc = "phase4_check" /\ pc' # pc)
            => (pc' = "phase4" <=> actions_done < MAX_ACTIONS)
       /\ stress' # stress => actions_done < MAX_ACTIONS]_vars

\* Phase 3 reached the ceiling and the session ended without a stress
\* interaction
C23_Witness ==
    /\ pc = "done"
    /\ actions_done = MAX_ACTIONS
    /\ stress = 0

\* C24: an input field is left only after every probe string of test_chars
\* has been attempted on it, whatever sub-step failed before
C24_LaterStepsAttempted ==
    [][(pc # "phase2_next" /\ pc' = "phase2_next")
          => phase2.char = Len(test_chars)]_vars

\* C25: in the click-through loop a suggestion that is clicked after a
\* re-probe is an element of the list that the latest re-probe returned,
\* which in iteration j is list j
C25_ClicksFreshSuggestion ==
    [][(/\ pc = "phase2_through"
        /\ phase2.j >= 1
        /\ phase2'.through_clicks > phase2.through_clicks)
          => phase2'.source = phase2.j]_vars

\* C26: a handle_error call that finds a duplicate, in seen_errors or in
\* the ledger, leaves the ledger file and seen_errors as they were
C26_DuplicateChangesNothing ==
    [][(/\ last' # last
        /\ last'.outcome \in {"dup_seen", "dup_json"})
          => /\ file' = file
             /\ seen_errors' = seen_errors]_vars

\* the last call found its duplicate in a ledger that holds records
C26_Witness ==
    /\ last # NoCall
    /\ last.outcome = "dup_json"
    /\ file.st = "ok"
    /\ Len(file.errors) >= 1

\* the records of a ledger file that were written in this session, as
\* json.load returns them (none when the file cannot be loaded)
WrittenInSession(r) == r.timestamp = "session"
RecordsOf(f) == IF f.st = "ok" THEN SelectSeq(f.errors, WrittenInSession) ELSE <<>>

\* C27: every step leaves the records that the session has persisted in
\* place, unchanged and in order, at the head of the session's records
C27_AppendOnly ==
    [][/\ Len(RecordsOf(file)) <= Len(RecordsOf(file'))
       /\ SubSeq(RecordsOf(file'), 1, Len(RecordsOf(file))) = RecordsOf(file)]_vars

\* the record of the event that handle_error handled last is the last
\* record of the ledger
LastIsPersisted(f, l) ==
    /\ f.st = "ok"
    /\ Len(f.errors) >= 1
    /\ f.errors[Len(f.errors)].error_signature = EventSignature(l.ev)
    /\ f.errors[Len(f.errors)].timestamp = "session"

\* the write of the call that returned l failed
WriteFailed(l) == l.outcome = "accepted" /\ ~l.saved

\* C28 as stated: when the ledger write of one handle_error call has
\* failed, the next event whose signature is not in seen_errors and whose
\* own ledger write does not fail gets its record persisted
C28_NewSignaturePersisted ==
    [][(/\ last # NoCall
        /\ WriteFailed(last)
        /\ last' # last
        /\ last'.outcome # "dup_seen"
        /\ ~WriteFailed(last'))
          => LastIsPersisted(file', last')]_vars

\* C28 amended: when the ledger write of one handle_error call has failed,
\* the next event whose signature is not in seen_errors, that the ledger
\* scan does not reject and whose own ledger write does not fail gets its
\* record persisted
C28_AcceptedPersisted ==
    [][(/\ last # NoCall
        /\ WriteFailed(last)
        /\ last' # last
        /\ last'.outcome \notin {"dup_seen", "dup_json"}
        /\ ~WriteFailed(last'))
          => LastIsPersisted(file', last')]_vars

\* two events were accepted, a failed write lost the record of the first,
\* and the second is persisted
C28_Witness ==
    /\ io_failed
    /\ last # NoCall
    /\ last.saved
    /\ Cardinality(seen_errors) = 2
    /\ Len(RecordsOf(file)) = 1
    /\ "execution_start" \notin file.keys
    /\ LastIsPersisted(file, last)

\* the values the specification lists for a record's error_type
ListedErrorTypes ==
    {"page_error", "console_error", "promise_rejection", "navigation_error",
     "custom_error", "unknown"}

\* C29: every record this session wrote to the ledger has an error_type
\* from the listed set, whichever channel delivered the event
C29_ErrorTypeListed ==
    \A i \in 1..Len(RecordsOf(file)) :
        RecordsOf(file)[i].error_type \in ListedErrorTypes

\* an output line that carries the error marker
Marked(line) == Len(line) >= 3 /\ SubSeq(line, 1, 3) = <<">", ">", ">">>
EndsWith(s, t) == Len(t) <= Len(s) /\ SubSeq(s, Len(s) - Len(t) + 1, Len(s)) = t

\* C30: for a source of n lines and an error line L, 1 <= L <= n, the
\* result has one output line for each of the lines max(1, L-30) through
\* min(n, L+30), each ending with the text of its source line, and the
\* output line of L and only that one carries the error marker
C30_WindowReturned ==
    context.returned =>
        LET lines == Split(context.source_code, "\n")
            L == context.line_number
            first == Max(1, L - 30)
            final == Min(Len(lines), L + 30)
            out == Split(context.result, "\n")
        IN  /\ Len(out) = final - first + 1
            /\ \A k \in 1..Len(out) :
                   /\ Marked(out[k]) <=> (first + k - 1 = L)
                   /\ first + k - 1 <= Len(lines) => EndsWith(out[k], lines[first + k - 1])

\* the element takes text: a textarea, or an input whose type is absent or
\* one of the text-like types
TextEntry(el) ==
    \/ el.tag_name = "textarea"
    \/ /\ el.tag_name = "input"
       /\ el.type \in {"", "text", "email", "search", "password", "number", "tel"}

\* C31: a discovered element is tagged input exactly when its tag and type
\* indicate text entry, and click otherwise, for every selector that
\* returned it
C31_InputOnlyForTextEntry ==
    element_info.interaction_type # "" =>
        /\ element_info.interaction_type \in {"input", "click"}
        /\ element_info.interaction_type = "input" <=> TextEntry(element_info)

\* C32: visited_selectors changes only in a step of Phase 3, seen_errors
\* only in a handle_error call, and navigation_in_progress and
\* navigation_errors only in a step of a handle_navigation task
C32_SingleWriter ==
    [][/\ visited_selectors' # visited_selectors => pc = "phase3"
       /\ seen_errors' # seen_errors => last' # last
       /\ (navigation_in_progress' # navigation_in_progress
              \/ navigation_errors' # navigation_errors) => guard' # guard]_vars

\* C33: a return to the origin that the content or the state of the page
\* triggers after a click leaves a URL that differs from the origin URL
C33_ContentReturnOnlyOffOrigin ==
    [][(pc = "phase1_after" /\ phase1'.returned_from # "")
          => phase1'.returned_from # phase1.original_url]_vars

\* C34: while some handle_navigation task has set the flag and has not yet
\* returned, navigation_in_progress is True
C34_InProgressWhileRecovering ==
    (\E t \in GuardSlots : guard[t].pc \notin {"free", "start"}) => navigation_in_progress

\* C35: when a handle_navigation task starts, the events in
\* navigation_errors that have not been flushed are still there afterwards
C35_StartKeepsUnflushed ==
    [][(\E t \in GuardSlots : guard[t].pc = "start" /\ guard'[t].pc = "wait")
          => \A i \in 1..Len(navigation_errors) :
                 ~navigation_errors[i].flushed
                     => \E k \in 1..Len(navigation_errors') :
                            navigation_errors'[k] = navigation_errors[i]]_vars

\* C36: a handle_navigation task is created only by a navigation that the
\* page started itself, never by a step of the guard's own recovery
C36_RecoveryStartsNoActivation ==
    [][(\E t \in GuardSlots : guard[t].pc = "free" /\ guard'[t].pc = "start")
          => page_navs' = page_navs + 1]_vars

\* C37: every signature in seen_errors has a record with that signature in
\* the ledger, also after a handle_error call whose ledger write failed
C37_SeenIsPersisted ==
    \A sig \in seen_errors :
        \E i \in 1..Len(LedgerErrors) : LedgerErrors[i].error_signature = sig

\* the four components of an event that the signature is built from
SigComponents(a) ==
    <<Take(a.error_message, SigMessageLen), a.filename, a.lineno, a.colno>>

\* C38: two events that differ in the truncated message, the filename, the
\* line or the column have different signature strings
C38_SignatureInjective ==
    (signature_pair.strings # <<>>
        /\ SigComponents(signature_pair.first) # SigComponents(signature_pair.second))
    => signature_pair.strings[1] # signature_pair.strings[2]

\* C39: when Phase 1 returns, successfully_clicked of its summary is the
\* number of elements whose click was performed and did not raise
C39_SummaryCountsClicks ==
    [][(pc = "phase1_loop" /\ pc' = "phase2")
          => clicking_summary(phase1).successfully_clicked = phase1.succeeded]_vars

\* C40: at the end of every Phase 3 iteration visited_selectors has as many
\* paths as actions_performed counts; an iteration that selects an element
\* adds one new path and then counts one interaction, and no step outside
\* Phase 3 changes either of them
C40_VisitedEqualsPerformed ==
    [][/\ pc' # "phase3_interact" => Cardinality(visited_selectors') = actions_performed'
       /\ (pc = "phase3" /\ pc' = "phase3_interact")
              => /\ Cardinality(visited_selectors') = Cardinality(visited_selectors) + 1
                 /\ actions_performed' = actions_performed
       /\ (pc = "phase3_interact" /\ pc' # pc)
              => /\ actions_performed' = actions_performed + 1
                 /\ visited_selectors' = visited_selectors
       /\ (pc \notin {"phase3", "phase3_interact"} \/ pc' = pc)
              => UNCHANGED <<visited_selectors, actions_performed>>]_vars

\* two iterations of Phase 3 have selected an element and interacted with it
C40_Witness ==
    /\ pc = "phase3"
    /\ actions_performed = 2
    /\ Cardinality(visited_selectors) = 2

====
